---- MODULE Spec2Model ----
(***************************************************************************)
(* Model of the OpenCL kernel dispatch layer of geoengine                   *)
(* (operators/src/opencl/cl_program.rs): CLProgram (declaration and         *)
(* compile), CompiledCLProgram (runnable, placeholders, run) and            *)
(* CLProgramRunnable (slot binding, argument upload, readback).             *)
(*                                                                          *)
(* Rust indices are 0-based; the sequences below are 1-based, so the        *)
(* element at Rust index idx is seq[idx + 1].  Option<T> is modelled as a   *)
(* sequence of length 0 (None) or 1 (Some).  A Rust panic (expect, todo!,   *)
(* index out of bounds) is the result "Panic" and ends the process.         *)
(***************************************************************************)
EXTENDS Integers, Sequences, FiniteSets, TLC

\* ------------------------------------------------------------------ bounds
\* Largest number of argument descriptors one program declares (all four
\* lists together).
MaxArgs == 3

\* Bits of the significand of the modelled floating-point numbers.  An f64
\* has 53; the model keeps its format and its rounding at this width.
MantissaBits == 4

\* Threads of the process that call CLProgram::compile.
NumThreads == 2

\* Longest list of raster sources, and of vector sources, of an operator.
MaxSources == 2

\* ------------------------------------------------------------- value model
IterationType == {"Raster", "VectorFeatures", "VectorCoordinates"}

RasterDataType ==
    {"U8", "U16", "U32", "U64", "I8", "I16", "I32", "I64", "F32", "F64"}

VectorDataType == {"Data", "MultiPoint", "MultiLineString", "MultiPolygon"}

\* Element types the explored programs and rasters use.
UsedRasterTypes == {"I32", "F32"}

\* Geometry kinds the explored programs, collections and builders use:
\* attribute-only, the implemented kind and one reserved kind (MultiPolygon
\* shares every match arm with MultiLineString).
UsedVectorTypes == {"Data", "MultiPoint", "MultiLineString"}

\* Attribute types and column names the explored descriptors use.
UsedFeatureDataTypes == {"Number", "Text"}

ColumnName == "a"

None == <<>>

Some(v) == <<v>>

IsSome(o) == Len(o) = 1

RasterArgument(data_type) == [data_type |-> data_type]

RasterArguments == {RasterArgument(t) : t \in UsedRasterTypes}

VectorArgument(vector_type, columns, column_types) ==
    [vector_type |-> vector_type, columns |-> columns,
     column_types |-> column_types]

\* Descriptors offered to add_input_features: Data and MultiLineString
\* without columns, MultiPoint with the one column (ColumnName, Number).
InputVectorArguments ==
    {VectorArgument(v, <<>>, <<>>) : v \in {"Data", "MultiLineString"}}
        \cup {VectorArgument("MultiPoint", <<ColumnName>>, <<"Number">>)}

\* Descriptors offered to add_output_features.
OutputVectorArguments == {VectorArgument(v, <<>>, <<>>) : v \in UsedVectorTypes}

\* Host rasters handed to set_input_raster / set_output_raster.
TypedRaster2D ==
    [data_type : UsedRasterTypes, width : {3}, height : {2}]

\* Host collections handed to set_input_features.  column is the attribute
\* type of the column ColumnName, or "absent" when the collection lacks it.
TypedFeatureCollection ==
    [vector_type : UsedVectorTypes, column : {"absent"}]
        \cup [vector_type : {"MultiPoint"}, column : UsedFeatureDataTypes]

\* Builders handed to set_output_features: the implemented kind and one
\* kind of the catch-all arm.
FeatureCollectionBatchBuilder ==
    [output_type : {"Data", "MultiPoint"}, num_features : {3},
     num_coords : {4}]

\* TypedRaster2D::raster_data_type
raster_data_type(raster) == raster.data_type

\* TypedFeatureCollection::vector_data_type
vector_data_type(features) == features.vector_type

\* FeatureCollection::column_type: Some(type) or None.
column_type(features, name) ==
    IF name = ColumnName /\ features.column # "absent"
    THEN Some(features.column)
    ELSE None

\* ---------------------------------------------------------------- state
VARIABLES
    phase,      \* "declare" | "compiled" | "bound" | "rejected" |
                \* "consumed" | "aborted"
    program,    \* the CLProgram under declaration
    compiled,   \* the CompiledCLProgram (meaningful from phase "compiled")
    runnable,   \* the CLProgramRunnable (meaningful in phase "bound")
    device,     \* TRUE once the lazy static DEVICE has been initialised
    lastOp,     \* name of the last operation called
    lastArgs,   \* its arguments and the state it was called in
    result,     \* its result: "Ok", an error kind, or "Panic"
    ran,        \* the runnable that was moved into the last run (kept
                \* until the next runnable is minted)
    log,        \* device and builder events of the last compile or run
    typedefs,   \* the type prelude the last compile generated, line by line
    kernel,     \* the kernel of the last run: its declared placeholders and
                \* the global work size it was enqueued with
    geo,        \* the last call on a GeoTransform: the method, the transform,
                \* the argument and the value returned
    operator,   \* the last InitializedOperatorImpl::create: its arguments,
                \* its result and the calls it made
    threads,    \* the position of each thread that compiles concurrently
    once,       \* the lazy static DEVICE and what the threads derived
    raster_info \* the last raster handed to RasterInfo::from_raster and the
                \* RasterInfo it produced

vars == <<phase, program, compiled, runnable, device, lastOp, lastArgs,
          result, ran, log, typedefs, kernel,
          raster_info, geo, operator, threads, once>>

\* The variables outside the dispatch path of one program.
elsewhere == <<geo, operator, threads, once>>

\* CLProgram::new
CLProgramNew(iteration_type) ==
    [input_rasters |-> <<>>, output_rasters |-> <<>>,
     input_features |-> <<>>, output_features |-> <<>>,
     iteration_type |-> iteration_type]

NoCompiled ==
    [kernel_name |-> "", iteration_type |-> "Raster",
     input_raster_types |-> <<>>, output_raster_types |-> <<>>,
     input_feature_types |-> <<>>, output_feature_types |-> <<>>]

\* CLProgramRunnable::new
CLProgramRunnableNew(input_raster_types, output_raster_types, input_feature_types, output_feature_types) ==
    [input_raster_types |-> input_raster_types,
     output_raster_types |-> output_raster_types,
     input_rasters |-> [i \in 1..Len(input_raster_types) |-> None],
     output_rasters |-> [i \in 1..Len(output_raster_types) |-> None],
     input_feature_types |-> input_feature_types,
     output_feature_types |-> output_feature_types,
     input_features |-> [i \in 1..Len(input_feature_types) |-> None],
     output_features |-> [i \in 1..Len(output_feature_types) |-> None],
     raster_output_buffers |-> <<>>,
     feature_output_buffers |-> <<>>]

NoRunnable == CLProgramRunnableNew(<<>>, <<>>, <<>>, <<>>)

NoArgs == [idx |-> 0, tag |-> "", column |-> "", fail |-> "none", value |-> <<>>]

NoKernel == [placeholders |-> <<>>, global_work_size |-> <<>>, written |-> <<>>, drained |-> <<>>, rejected |-> <<>>, sized |-> <<>>]

NoInfo == <<>>

NoCall == [op |-> "none"]

\* No thread has started, DEVICE is uninitialised, nothing was derived.
NotStarted == [t \in {} |-> "start"]

Uninitialised == [DEVICE |-> "uninitialised", device_first |-> 0, contexts |-> 0]

Init ==
    /\ phase = "declare"
    /\ program \in {CLProgramNew(it) : it \in IterationType}
    /\ compiled = NoCompiled
    /\ runnable = NoRunnable
    /\ device = FALSE
    /\ lastOp = "new"
    /\ lastArgs = NoArgs
    /\ result = "Ok"
    /\ ran = NoRunnable
    /\ log = <<>>
    /\ typedefs = <<>>
    /\ kernel = NoKernel
    /\ raster_info = NoInfo
    /\ geo = NoCall
    /\ operator = NoCall
    /\ threads = NotStarted
    /\ once = Uninitialised

\* ----------------------------------------------------------- declaration
NumArgs(p) ==
    Len(p.input_rasters) + Len(p.output_rasters)
        + Len(p.input_features) + Len(p.output_features)

Declared(op) ==
    /\ phase' = "declare"
    /\ lastOp' = op
    /\ lastArgs' = NoArgs
    /\ result' = "Ok"
    /\ UNCHANGED <<compiled, runnable, device, ran, log, typedefs, kernel,
                   raster_info, elsewhere>>

\* CLProgram::add_input_raster, called with one of the descriptors `offered`
\* on a program of fewer than `most` arguments.
AddInputRasterUpTo(offered, most) ==
    /\ phase = "declare"
    /\ NumArgs(program) < most
    /\ \E raster \in offered :
         program' = [program EXCEPT
                       !.input_rasters = Append(@, raster)]
    /\ Declared("add_input_raster")

AddInputRaster(offered) == AddInputRasterUpTo(offered, MaxArgs)

add_input_raster == AddInputRaster(RasterArguments)

\* CLProgram::add_output_raster, called with one of the descriptors `offered`
\* on a program of fewer than `most` arguments.
AddOutputRasterUpTo(offered, most) ==
    /\ phase = "declare"
    /\ NumArgs(program) < most
    /\ \E raster \in offered :
         program' = [program EXCEPT
                       !.output_rasters = Append(@, raster)]
    /\ Declared("add_output_raster")

AddOutputRaster(offered) == AddOutputRasterUpTo(offered, MaxArgs)

add_output_raster == AddOutputRaster(RasterArguments)

\* CLProgram::add_input_features, called with one of the descriptors `offered`.
AddInputFeatures(offered) ==
    /\ phase = "declare"
    /\ NumArgs(program) < MaxArgs
    /\ \E vector_type \in offered :
         program' = [program EXCEPT
                       !.input_features = Append(@, vector_type)]
    /\ Declared("add_input_features")

add_input_features == AddInputFeatures(InputVectorArguments)

\* CLProgram::add_output_features, called with one of the descriptors `offered`.
AddOutputFeatures(offered) ==
    /\ phase = "declare"
    /\ NumArgs(program) < MaxArgs
    /\ \E vector_type \in offered :
         program' = [program EXCEPT
                       !.output_features = Append(@, vector_type)]
    /\ Declared("add_output_features")

add_output_features == AddOutputFeatures(OutputVectorArguments)

\* ----------------------------------------------------------- type prelude
\* A name table whose I8 arm carries the name of U8.
RasterDataTypeToClUnsignedChar(data_type) ==
    CASE data_type = "U8" -> "uchar"
      [] data_type = "U16" -> "ushort"
      [] data_type = "U32" -> "uint"
      [] data_type = "U64" -> "ulong"
      [] data_type = "I8" -> "uchar"
      [] data_type = "I16" -> "short"
      [] data_type = "I32" -> "int"
      [] data_type = "I64" -> "long"
      [] data_type = "F32" -> "float"
      [] data_type = "F64" -> "double"

\* CLProgram::raster_data_type_to_cl
raster_data_type_to_cl(data_type) ==
    CASE data_type = "U8" -> "uchar"
      [] data_type = "U16" -> "ushort"
      [] data_type = "U32" -> "uint"
      [] data_type = "U64" -> "ulong"
      [] data_type = "I8" -> "char"
      [] data_type = "I16" -> "short"
      [] data_type = "I32" -> "int"
      [] data_type = "I64" -> "long"
      [] data_type = "F32" -> "float"
      [] data_type = "F64" -> "double"

\* One line of the prelude: the directive, the name it defines, the index
\* formatted into the name (0 for the two fixed definitions) and its body.
Line(directive, name, idx, body) ==
    [directive |-> directive, name |-> name, idx |-> idx, body |-> body]

\* The two macro bodies create_type_definitions formats.
IsNoDataFloat == "(i->has_no_data && (isnan(v) || v == i->no_data))"

IsNoDataInteger == "(i->has_no_data && v == i->no_data)"

\* The literal pushed first: the RasterInfo struct and the R macro.
RasterInfoDefinitions ==
    <<Line("typedef struct", "RasterInfo", 0, "size origin scale min max no_data crs_code has_no_data"),
      Line("#define", "R", 0, "t ## _data[y * t ## _info->size[0] + x]")>>

\* A value on the device: NaN or a number.  The explored numbers are small
\* integers, which every element type and cl_double hold exactly.
NaN == [nan |-> TRUE, value |-> 0]

Number(n) == [nan |-> FALSE, value |-> n]

\* OpenCL C isnan(v) and v == w: NaN equals nothing.
isnan(v) == v.nan

Equal(v, w) == ~v.nan /\ ~w.nan /\ v.value = w.value

\* The value of ISNODATA<idx>(v, i) for a macro with the given body.
ISNODATA(body, v, i) ==
    CASE body = IsNoDataFloat
           -> i.has_no_data # 0 /\ (isnan(v) \/ Equal(v, i.no_data))
      [] body = IsNoDataInteger
           -> i.has_no_data # 0 /\ Equal(v, i.no_data)

\* An input loop that takes only F32 for a floating-point type.
InputRasterDefinitionsSinglePrecision(input_rasters) ==
    [k \in 1..(2 * Len(input_rasters)) |->
        LET idx == (k - 1) \div 2
            raster == input_rasters[idx + 1]
        IN  IF k % 2 = 1
            THEN Line("typedef", "IN_TYPE", idx,
                      raster_data_type_to_cl(raster.data_type))
            ELSE IF raster.data_type = "F32"
            THEN Line("#define", "ISNODATA", idx, IsNoDataFloat)
            ELSE Line("#define", "ISNODATA", idx, IsNoDataInteger)]

\* The loop over input_rasters: a typedef and an ISNODATA macro per raster.
InputRasterDefinitions(input_rasters) ==
    [k \in 1..(2 * Len(input_rasters)) |->
        LET idx == (k - 1) \div 2
            raster == input_rasters[idx + 1]
        IN  IF k % 2 = 1
            THEN Line("typedef", "IN_TYPE", idx,
                      raster_data_type_to_cl(raster.data_type))
            ELSE IF raster.data_type = "F32" \/ raster.data_type = "F64"
            THEN Line("#define", "ISNODATA", idx, IsNoDataFloat)
            ELSE Line("#define", "ISNODATA", idx, IsNoDataInteger)]

\* The loop over output_rasters: a typedef per raster.
OutputRasterDefinitions(output_rasters) ==
    [k \in 1..Len(output_rasters) |->
        Line("typedef", "OUT_TYPE", k - 1,
             raster_data_type_to_cl(output_rasters[k].data_type))]

\* CLProgram::create_type_definitions: the prelude as a sequence of lines.
create_type_definitions(p) ==
    IF Len(p.input_rasters) + Len(p.output_rasters) = 0
    THEN <<>>
    ELSE RasterInfoDefinitions
             \o InputRasterDefinitions(p.input_rasters)
             \o OutputRasterDefinitions(p.output_rasters)

\* ---------------------------------------------------------------- compile
\* A gate that accepts a vector program with only one of its two lists.
CompileGateEitherList(p) ==
    \/ /\ p.iteration_type \in {"VectorFeatures", "VectorCoordinates"}
       /\ (Len(p.input_features) # 0 \/ Len(p.output_features) # 0)
    \/ /\ p.iteration_type = "Raster"
       /\ Len(p.input_rasters) # 0
       /\ Len(p.output_rasters) # 0

\* The ensure! condition at the head of CLProgram::compile.
CompileGate(p) ==
    \/ /\ (p.iteration_type = "VectorFeatures"
            \/ p.iteration_type = "VectorCoordinates")
       /\ (Len(p.input_features) # 0 /\ Len(p.output_features) # 0)
    \/ /\ p.iteration_type = "Raster"
       /\ Len(p.input_rasters) # 0
       /\ Len(p.output_rasters) # 0

\* Steps of compile at which the platform can fail.
CompileFailure == {"none", "device", "context", "program"}

Ev(op, kind, idx) == [op |-> op, kind |-> kind, idx |-> idx]

\* The device part of compile, after the gate: Platform::default, the
\* dereference of the lazy static DEVICE (Device::first on first use, whose
\* expect panics without a device), Context::build and ProgramBuilder::build.
CompileDevice(dev, fail) ==
    LET platform == <<Ev("platform_default", "", 0)>>
        query == IF dev THEN <<>> ELSE <<Ev("device_first", "", 0)>>
    IN  IF ~dev /\ fail = "device"
        THEN [res |-> "Panic", log |-> platform, device |-> FALSE]
        ELSE IF fail = "context"
        THEN [res |-> "Backend", log |-> platform \o query, device |-> TRUE]
        ELSE IF fail = "program"
        THEN [res |-> "Backend",
              log |-> platform \o query \o <<Ev("context_build", "", 0)>>,
              device |-> TRUE]
        ELSE [res |-> "Ok",
              log |-> platform \o query
                        \o <<Ev("context_build", "", 0),
                             Ev("program_build", "", 0)>>,
              device |-> TRUE]

\* A compile that reaches for the device before it validates.
CompileOutcomeEager(p, dev, fail) ==
    LET d == CompileDevice(dev, fail)
    IN  IF ~CompileGate(p)
        THEN [d EXCEPT !.res = "InvalidInputsForIterationType"]
        ELSE d

\* CLProgram::compile: result, device events and the DEVICE flag.
CompileOutcome(p, dev, fail) ==
    IF ~CompileGate(p)
    THEN [res |-> "InvalidInputsForIterationType", log |-> <<>>,
          device |-> dev]
    ELSE CompileDevice(dev, fail)

\* CompiledCLProgram::new
CompiledCLProgramNew(kernel_name, p) ==
    [kernel_name |-> kernel_name, iteration_type |-> p.iteration_type,
     input_raster_types |-> p.input_rasters,
     output_raster_types |-> p.output_rasters,
     input_feature_types |-> p.input_features,
     output_feature_types |-> p.output_features]

compile ==
    /\ phase = "declare"
    /\ \E fail \in CompileFailure :
         LET out == CompileOutcome(program, device, fail)
         IN  /\ result' = out.res
             /\ log' = out.log
             /\ device' = out.device
             /\ lastArgs' = [NoArgs EXCEPT !.fail = fail]
             /\ phase' = CASE out.res = "Ok" -> "compiled"
                           [] out.res = "Panic" -> "aborted"
                           [] OTHER -> "consumed"
             /\ compiled' = IF out.res = "Ok"
                            THEN CompiledCLProgramNew("kernel", program)
                            ELSE compiled
             /\ typedefs' = IF out.res = "InvalidInputsForIterationType"
                            THEN typedefs
                            ELSE create_type_definitions(program)
    /\ lastOp' = "compile"
    /\ UNCHANGED <<program, runnable, ran, kernel, raster_info, elsewhere>>

\* --------------------------------------------------------------- runnable
\* A runnable whose output slots are made from the input descriptors.
RunnableFromInputTypes(c) ==
    CLProgramRunnableNew(c.input_raster_types, c.input_raster_types,
                         c.input_feature_types, c.input_feature_types)

\* CompiledCLProgram::runnable
Runnable(c) ==
    CLProgramRunnableNew(c.input_raster_types, c.output_raster_types,
                         c.input_feature_types, c.output_feature_types)

runnable_ ==
    /\ phase \in {"compiled", "bound", "rejected"}
    /\ runnable' = Runnable(compiled)
    /\ phase' = "bound"
    /\ lastOp' = "runnable"
    /\ lastArgs' = NoArgs
    /\ result' = "Ok"
    /\ ran' = NoRunnable
    /\ log' = <<>>
    /\ kernel' = NoKernel
    /\ UNCHANGED <<program, compiled, device, typedefs, raster_info, elsewhere>>

Max(a, b) == IF a >= b THEN a ELSE b

\* Indices offered to the set_* calls (0-based, as in the source): every
\* index of the longest declared list and the one behind it, so each list
\* sees an index inside and an index outside its range.
Indices(r) ==
    0..Max(Max(Len(r.input_raster_types), Len(r.output_raster_types)),
           Max(Len(r.input_feature_types), Len(r.output_feature_types)))

\* A set_input_raster whose two ensure! are swapped: the type check indexes
\* input_raster_types[idx] before idx is validated, which panics out of range.
SetInputRasterTypeFirst(r, idx, raster) ==
    IF ~(idx < Len(r.input_raster_types))
    THEN [res |-> "Panic", runnable |-> r]
    ELSE IF ~(raster_data_type(raster) = r.input_raster_types[idx + 1].data_type)
    THEN [res |-> "InvalidRasterDataType", runnable |-> r]
    ELSE [res |-> "Ok",
          runnable |-> [r EXCEPT !.input_rasters[idx + 1] = Some(raster)]]

\* CLProgramRunnable::set_input_raster
SetInputRaster(r, idx, raster) ==
    IF ~(idx < Len(r.input_raster_types))
    THEN [res |-> "InvalidRasterIndex", runnable |-> r]
    ELSE IF ~(raster_data_type(raster) = r.input_raster_types[idx + 1].data_type)
    THEN [res |-> "InvalidRasterDataType", runnable |-> r]
    ELSE [res |-> "Ok",
          runnable |-> [r EXCEPT !.input_rasters[idx + 1] = Some(raster)]]

\* CLProgramRunnable::set_output_raster.  The index is compared with the
\* number of declared INPUT rasters; output_raster_types[idx] then panics
\* when idx is outside the output list.
SetOutputRaster(r, idx, raster) ==
    IF ~(idx < Len(r.input_raster_types))
    THEN [res |-> "InvalidRasterIndex", runnable |-> r]
    ELSE IF ~(idx < Len(r.output_raster_types))
    THEN [res |-> "Panic", runnable |-> r]
    ELSE IF ~(raster_data_type(raster) = r.output_raster_types[idx + 1].data_type)
    THEN [res |-> "InvalidRasterDataType", runnable |-> r]
    ELSE [res |-> "Ok",
          runnable |-> [r EXCEPT !.output_rasters[idx + 1] = Some(raster)]]

\* The column check of set_input_features: every declared (name, type) is a
\* column of the collection with that type.
ColumnsMatch(arg, features) ==
    \A k \in 1..Len(arg.columns) :
        k <= Len(arg.column_types)
            => LET to == column_type(features, arg.columns[k])
               IN  IF IsSome(to) THEN to[1] = arg.column_types[k] ELSE FALSE

\* CLProgramRunnable::set_input_features.  The value of the column check is
\* computed and dropped: it decides nothing.
SetInputFeatures(r, idx, features) ==
    IF ~(idx < Len(r.input_feature_types))
    THEN [res |-> "InvalidFeaturesIndex", runnable |-> r]
    ELSE IF ~(vector_data_type(features) = r.input_feature_types[idx + 1].vector_type)
    THEN [res |-> "InvalidVectorDataType", runnable |-> r]
    ELSE LET all == ColumnsMatch(r.input_feature_types[idx + 1], features)
         IN  [res |-> "Ok",
              runnable |-> [r EXCEPT !.input_features[idx + 1] = Some(features)]]

\* CLProgramRunnable::set_output_features
\* A set_output_features that keeps a builder bound earlier.
SetOutputFeaturesOnce(r, idx, features) ==
    IF ~(idx < Len(r.output_feature_types))
    THEN [res |-> "InvalidFeaturesIndex", runnable |-> r]
    ELSE IF IsSome(r.output_features[idx + 1])
    THEN [res |-> "Ok", runnable |-> r]
    ELSE [res |-> "Ok",
          runnable |-> [r EXCEPT !.output_features[idx + 1] = Some(features)]]

SetOutputFeatures(r, idx, features) ==
    IF ~(idx < Len(r.output_feature_types))
    THEN [res |-> "InvalidFeaturesIndex", runnable |-> r]
    ELSE [res |-> "Ok",
          runnable |-> [r EXCEPT !.output_features[idx + 1] = Some(features)]]

\* Common frame of the four set_* calls.  The explored caller stops binding
\* at the first error, as the `?` and unwrap of the callers do: the runnable
\* it holds is then only dropped or replaced by a fresh one.
Bound(op, out, idx, tag, column, value) ==
    /\ lastOp' = op
    /\ lastArgs' = [NoArgs EXCEPT !.idx = idx, !.tag = tag,
                                  !.column = column, !.value = Some(value)]
    /\ result' = out.res
    /\ runnable' = out.runnable
    /\ phase' = CASE out.res = "Ok" -> "bound"
                  [] out.res = "Panic" -> "aborted"
                  [] OTHER -> "rejected"
    /\ UNCHANGED <<program, compiled, device, ran, log, typedefs, kernel,
                   raster_info, elsewhere>>

\* A call of set_input_raster with an index and one of the values `offered`.
CallSetInputRaster(offered) ==
    /\ phase = "bound"
    /\ \E idx \in Indices(runnable), raster \in offered :
         Bound("set_input_raster", SetInputRaster(runnable, idx, raster),
               idx, raster_data_type(raster), "", raster)

set_input_raster == CallSetInputRaster(TypedRaster2D)

\* A call of set_output_raster with an index and one of the values `offered`.
CallSetOutputRaster(offered) ==
    /\ phase = "bound"
    /\ \E idx \in Indices(runnable), raster \in offered :
         Bound("set_output_raster", SetOutputRaster(runnable, idx, raster),
               idx, raster_data_type(raster), "", raster)

set_output_raster == CallSetOutputRaster(TypedRaster2D)

\* A call of set_input_features with an index and one of the values `offered`.
CallSetInputFeatures(offered) ==
    /\ phase = "bound"
    /\ \E idx \in Indices(runnable), features \in offered :
         Bound("set_input_features", SetInputFeatures(runnable, idx, features),
               idx, vector_data_type(features), features.column, features)

set_input_features == CallSetInputFeatures(TypedFeatureCollection)

\* A call of set_output_features with an index and one of the values `offered`.
CallSetOutputFeatures(offered) ==
    /\ phase = "bound"
    /\ \E idx \in Indices(runnable), features \in offered :
         Bound("set_output_features", SetOutputFeatures(runnable, idx, features),
               idx, features.output_type, "", features)

set_output_features == CallSetOutputFeatures(FeatureCollectionBatchBuilder)

\* -------------------------------------------------------------------- run
\* Steps of run at which the device can fail: Queue::new, kernel.build, a
\* Buffer build (allocation or upload), the kernel enqueue and a buffer read.
RunFailure == {"none", "queue", "kernel", "buffer", "enqueue", "read"}

ArgName(kind, idx) == [kind |-> kind, idx |-> idx]

\* The state of one run: "running" or its final result, the events so far,
\* the two buffer lists of the runnable, and in `written` the host slots
\* (list and index) whose memory the run has written; `drained` is the
\* list of raster output buffers that read_output_buffers found, if the
\* run came that far; `rejected` is the argument name of a set_arg call
\* that the kernel refused, if there was one; `sized` lists the point
\* buffers the run allocated or read, each with its length.
RunStart ==
    [res |-> "running", log |-> <<>>,
     raster_output_buffers |-> <<>>, feature_output_buffers |-> <<>>,
     placeholders |-> <<>>, global_work_size |-> <<>>, written |-> <<>>,
     drained |-> None, rejected |-> None, sized |-> <<>>]

Running(m) == m.res = "running"

\* An early return (ensure!, `?`) or a panic.
Fail(m, res) == IF Running(m) THEN [m EXCEPT !.res = res] ELSE m

\* A step on the device: it fails with a Backend error or is logged.
DeviceOp(m, fail, step, ev) ==
    IF ~Running(m) THEN m
    ELSE IF fail = step THEN [m EXCEPT !.res = "Backend"]
    ELSE [m EXCEPT !.log = Append(@, ev)]

\* The calls on an output builder that return a Result.
BuilderFailure == {"set_points", "set_default_time_intervals", "finish"}

\* A call `step` on the builder of output slot idx: it fails with the
\* builder's error when (fail, at) names it, and is logged otherwise.
BuilderOp(m, fail, at, step, idx) ==
    IF ~Running(m) THEN m
    ELSE IF fail = step /\ at = idx THEN [m EXCEPT !.res = "Builder"]
    ELSE [m EXCEPT !.log = Append(@, Ev(step, "", idx))]

\* A point buffer of `len` elements was allocated or read.
Sized(m, op, kind, idx, len) ==
    IF ~Running(m) THEN m
    ELSE [m EXCEPT !.sized = Append(@, [op |-> op, kind |-> kind,
                                        idx |-> idx, len |-> len])]

\* Kernel::set_arg by name: an error for a name that is no placeholder.
SetArg(m, placeholders, kind, idx) ==
    IF ~Running(m) THEN m
    ELSE IF \E k \in 1..Len(placeholders) :
                placeholders[k] = ArgName(kind, idx)
    THEN [m EXCEPT !.log = Append(@, Ev("set_arg", kind, idx))]
    ELSE [m EXCEPT !.res = "Backend",
                   !.rejected = Some(ArgName(kind, idx))]

\* Raster loops that declare the info argument before the data argument.
RasterPlaceholdersInfoFirst(types, data, info) ==
    [k \in 1..(2 * Len(types)) |->
        IF k % 2 = 1 THEN ArgName(info, (k - 1) \div 2)
                     ELSE ArgName(data, (k - 2) \div 2)]

\* The two raster loops of set_argument_placeholders.
RasterPlaceholders(types, data, info) ==
    [k \in 1..(2 * Len(types)) |->
        IF k % 2 = 1 THEN ArgName(data, (k - 1) \div 2)
                     ELSE ArgName(info, (k - 2) \div 2)]

RECURSIVE FeaturePlaceholders(_, _, _, _)
\* The two feature loops of set_argument_placeholders, from index i on.
FeaturePlaceholders(types, i, coords, offsets) ==
    IF i > Len(types) THEN <<>>
    ELSE (IF types[i].vector_type = "MultiPoint"
          THEN <<ArgName(coords, i - 1), ArgName(offsets, i - 1)>>
          ELSE <<>>)
             \o FeaturePlaceholders(types, i + 1, coords, offsets)

\* The todo!() arms of set_argument_placeholders.
PlaceholdersTodo(c) ==
    \/ \E i \in 1..Len(c.input_feature_types) :
         c.input_feature_types[i].vector_type
             \in {"MultiLineString", "MultiPolygon"}
    \/ \E i \in 1..Len(c.output_feature_types) :
         c.output_feature_types[i].vector_type
             \in {"MultiLineString", "MultiPolygon"}

\* CompiledCLProgram::set_argument_placeholders: the declared names in order.
set_argument_placeholders(c) ==
    RasterPlaceholders(c.input_raster_types, "IN", "IN_INFO")
        \o RasterPlaceholders(c.output_raster_types, "OUT", "OUT_INFO")
        \o FeaturePlaceholders(c.input_feature_types, 1,
                               "IN_POINT_COORDS", "IN_POINT_OFFSETS")
        \o FeaturePlaceholders(c.output_feature_types, 1,
                               "OUT_POINT_COORDS", "OUT_POINT_OFFSETS")

RECURSIVE InputRasterArguments(_, _, _, _, _)
\* First loop of set_raster_arguments, from index i on.
InputRasterArguments(m, r, ph, fail, i) ==
    IF i > Len(r.input_rasters) \/ ~Running(m) THEN m
    ELSE LET a == DeviceOp(m, fail, "buffer", Ev("upload", "IN", i - 1))
             b == SetArg(a, ph, "IN", i - 1)
             c == DeviceOp(b, fail, "buffer", Ev("upload", "IN_INFO", i - 1))
             d == SetArg(c, ph, "IN_INFO", i - 1)
         IN  InputRasterArguments(d, r, ph, fail, i + 1)

\* A push that puts the new buffer in front of the earlier ones.
PushRasterOutputBufferFront(m, raster) ==
    IF ~Running(m) THEN m
    ELSE [m EXCEPT !.raster_output_buffers =
                      <<raster_data_type(raster)>> \o @]

\* self.raster_output_buffers.push(e(buffer)): the buffer carries the
\* element type of the raster it was sized from.
PushRasterOutputBuffer(m, raster) ==
    IF ~Running(m) THEN m
    ELSE [m EXCEPT !.raster_output_buffers =
                      Append(@, raster_data_type(raster))]

RECURSIVE OutputRasterArguments(_, _, _, _, _)
\* Second loop of set_raster_arguments, from index i on.
OutputRasterArguments(m, r, ph, fail, i) ==
    IF i > Len(r.output_rasters) \/ ~Running(m) THEN m
    ELSE IF ~IsSome(r.output_rasters[i]) THEN Fail(m, "Panic")
    ELSE LET raster == r.output_rasters[i][1]
             a == DeviceOp(m, fail, "buffer", Ev("alloc", "OUT", i - 1))
             b == SetArg(a, ph, "OUT", i - 1)
             c == PushRasterOutputBuffer(b, raster)
             d == DeviceOp(c, fail, "buffer", Ev("upload", "OUT_INFO", i - 1))
             e == SetArg(d, ph, "OUT_INFO", i - 1)
         IN  OutputRasterArguments(e, r, ph, fail, i + 1)

\* A set_raster_arguments that binds the output rasters before it looks at
\* the input slots.
SetRasterArgumentsLateCheck(m, r, ph, fail) ==
    IF ~Running(m) THEN m
    ELSE IF \E i \in 1..Len(r.input_rasters) : ~IsSome(r.input_rasters[i])
    THEN Fail(OutputRasterArguments(m, r, ph, fail, 1), "UnspecifiedRaster")
    ELSE OutputRasterArguments(
             InputRasterArguments(m, r, ph, fail, 1), r, ph, fail, 1)

\* CLProgramRunnable::set_raster_arguments
set_raster_arguments(m, r, ph, fail) ==
    IF ~Running(m) THEN m
    ELSE IF ~(\A i \in 1..Len(r.input_rasters) : IsSome(r.input_rasters[i]))
    THEN Fail(m, "UnspecifiedRaster")
    ELSE OutputRasterArguments(
             InputRasterArguments(m, r, ph, fail, 1), r, ph, fail, 1)

RECURSIVE InputFeatureArguments(_, _, _, _, _)
\* First loop of set_feature_arguments, from index i on.
InputFeatureArguments(m, r, ph, fail, i) ==
    IF i > Len(r.input_features) \/ ~Running(m) THEN m
    ELSE LET features == r.input_features[i][1]
             a == DeviceOp(m, fail, "buffer",
                           Ev("upload", "IN_POINT_COORDS", i - 1))
             b == SetArg(a, ph, "IN_POINT_COORDS", i - 1)
             c == DeviceOp(b, fail, "buffer",
                           Ev("upload", "IN_POINT_OFFSETS", i - 1))
             d == SetArg(c, ph, "IN_POINT_OFFSETS", i - 1)
             n == CASE features.vector_type = "Data" -> m
                    [] features.vector_type = "MultiPoint" -> d
                    [] OTHER -> Fail(m, "Panic")
         IN  InputFeatureArguments(n, r, ph, fail, i + 1)

RECURSIVE OutputFeatureArguments(_, _, _, _, _)
\* Second loop of set_feature_arguments, from index i on.
OutputFeatureArguments(m, r, ph, fail, i) ==
    IF i > Len(r.output_features) \/ ~Running(m) THEN m
    ELSE IF ~IsSome(r.output_features[i]) THEN Fail(m, "Panic")
    ELSE LET features == r.output_features[i][1]
             a == Sized(DeviceOp(m, fail, "buffer",
                                 Ev("alloc", "OUT_POINT_COORDS", i - 1)),
                        "alloc", "OUT_POINT_COORDS", i - 1,
                        features.num_coords)
             b == SetArg(a, ph, "OUT_POINT_COORDS", i - 1)
             c == Sized(DeviceOp(b, fail, "buffer",
                                 Ev("alloc", "OUT_POINT_OFFSETS", i - 1)),
                        "alloc", "OUT_POINT_OFFSETS", i - 1,
                        features.num_features + 1)
             d == SetArg(c, ph, "OUT_POINT_OFFSETS", i - 1)
             e == IF Running(d)
                  THEN [d EXCEPT !.feature_output_buffers =
                                    Append(@, "Points")]
                  ELSE d
             n == IF features.output_type = "MultiPoint"
                  THEN e
                  ELSE Fail(m, "Panic")
         IN  OutputFeatureArguments(n, r, ph, fail, i + 1)

\* CLProgramRunnable::set_feature_arguments
set_feature_arguments(m, r, ph, fail) ==
    IF ~Running(m) THEN m
    ELSE IF ~(\A i \in 1..Len(r.input_features) : IsSome(r.input_features[i]))
    THEN Fail(m, "UnspecifiedFeatures")
    ELSE OutputFeatureArguments(
             InputFeatureArguments(m, r, ph, fail, 1), r, ph, fail, 1)

\* A work_size that reads the last output instead of output 0.
WorkSizeOfLastOutput(m, c, r) ==
    IF ~Running(m) THEN m
    ELSE IF c.iteration_type = "Raster"
    THEN IF Len(r.output_rasters) = 0 \/ ~IsSome(r.output_rasters[1])
         THEN Fail(m, "Panic")
         ELSE LET raster == r.output_rasters[Len(r.output_rasters)][1]
              IN  [m EXCEPT !.global_work_size =
                               <<raster.width, raster.height>>]
    ELSE IF Len(r.output_features) = 0 \/ ~IsSome(r.output_features[1])
    THEN Fail(m, "Panic")
    ELSE LET features == r.output_features[Len(r.output_features)][1]
         IN  IF c.iteration_type = "VectorFeatures"
             THEN [m EXCEPT !.global_work_size = <<features.num_features>>]
             ELSE [m EXCEPT !.global_work_size = <<features.num_coords>>]

\* CompiledCLProgram::work_size: the expects on output 0 and the dimensions
\* read from it (SpatialDims::Two is a pair, SpatialDims::One a single).
work_size(m, c, r) ==
    IF ~Running(m) THEN m
    ELSE IF c.iteration_type = "Raster"
    THEN IF Len(r.output_rasters) = 0 \/ ~IsSome(r.output_rasters[1])
         THEN Fail(m, "Panic")
         ELSE [m EXCEPT !.global_work_size =
                           <<r.output_rasters[1][1].width,
                             r.output_rasters[1][1].height>>]
    ELSE IF Len(r.output_features) = 0 \/ ~IsSome(r.output_features[1])
    THEN Fail(m, "Panic")
    ELSE IF c.iteration_type = "VectorFeatures"
    THEN [m EXCEPT !.global_work_size =
                      <<r.output_features[1][1].num_features>>]
    ELSE [m EXCEPT !.global_work_size =
                      <<r.output_features[1][1].num_coords>>]

Min(a, b) == IF a <= b THEN a ELSE b

\* A host slot: one of the four lists of the runnable and an index.
HostSlot(list, idx) == [list |-> list, idx |-> idx]

\* A completed write into the host memory behind a slot.
HostWrite(m, list, idx) ==
    IF ~Running(m) THEN m
    ELSE [m EXCEPT !.written = Append(@, HostSlot(list, idx))]

\* A read of buffer k into the data of the input raster at the same index.
ReadIntoInputRaster(m, fail, k) ==
    HostWrite(DeviceOp(m, fail, "read", Ev("read", "OUT", k - 1)),
              "input_rasters", k - 1)

\* buffer.read(raster.data_container.as_mut_slice()).enq()? of pair k.
ReadIntoRaster(m, fail, k) ==
    HostWrite(DeviceOp(m, fail, "read", Ev("read", "OUT", k - 1)),
              "output_rasters", k - 1)

RECURSIVE ReadRasterBuffers(_, _, _, _)
\* First loop of read_output_buffers: the drained buffers zipped with the
\* output rasters, from pair k on.
ReadRasterBuffers(m, r, fail, k) ==
    IF k > Min(Len(m.raster_output_buffers), Len(r.output_rasters))
           \/ ~Running(m)
    THEN m
    ELSE LET n == IF IsSome(r.output_rasters[k])
                     /\ m.raster_output_buffers[k]
                            = raster_data_type(r.output_rasters[k][1])
                  THEN ReadIntoRaster(m, fail, k)
                  ELSE Fail(m, "Panic")
         IN  ReadRasterBuffers(n, r, fail, k + 1)

\* A loop body that finishes the builder before it sets the time intervals.
FillBuilderFinishFirst(m, builder, fail, at, idx) ==
    LET a == Sized(DeviceOp(m, fail, "read",
                            Ev("read", "OUT_POINT_OFFSETS", idx)),
                   "read", "OUT_POINT_OFFSETS", idx,
                   builder.num_features + 1)
        b == Sized(DeviceOp(a, fail, "read",
                            Ev("read", "OUT_POINT_COORDS", idx)),
                   "read", "OUT_POINT_COORDS", idx, builder.num_coords)
        c == HostWrite(BuilderOp(b, fail, at, "set_points", idx),
                       "output_features", idx)
        d == BuilderOp(c, fail, at, "finish", idx)
    IN  BuilderOp(d, fail, at, "set_default_time_intervals", idx)

\* The body of the second loop of read_output_buffers for the builder of
\* slot idx: the offsets and the coordinates are read into fresh buffers
\* of builder.num_features() + 1 and builder.num_coords() elements, then
\* set_points, set_default_time_intervals and finish are called, each `?`.
FillBuilder(m, builder, fail, at, idx) ==
    LET a == Sized(DeviceOp(m, fail, "read",
                            Ev("read", "OUT_POINT_OFFSETS", idx)),
                   "read", "OUT_POINT_OFFSETS", idx,
                   builder.num_features + 1)
        b == Sized(DeviceOp(a, fail, "read",
                            Ev("read", "OUT_POINT_COORDS", idx)),
                   "read", "OUT_POINT_COORDS", idx, builder.num_coords)
        c == HostWrite(BuilderOp(b, fail, at, "set_points", idx),
                       "output_features", idx)
        d == BuilderOp(c, fail, at, "set_default_time_intervals", idx)
    IN  BuilderOp(d, fail, at, "finish", idx)

RECURSIVE ReadFeatureBuffers(_, _, _, _, _)
\* Second loop of read_output_buffers, from pair k on.
ReadFeatureBuffers(m, r, fail, at, k) ==
    IF k > Min(Len(m.feature_output_buffers), Len(r.output_features))
           \/ ~Running(m)
    THEN m
    ELSE IF ~IsSome(r.output_features[k]) THEN Fail(m, "Panic")
    ELSE ReadFeatureBuffers(
             FillBuilder(m, r.output_features[k][1], fail, at, k - 1),
             r, fail, at, k + 1)

\* CLProgramRunnable::read_output_buffers
read_output_buffers(m, r, fail, at) ==
    IF ~Running(m) THEN m
    ELSE LET a == ReadRasterBuffers(
                      [m EXCEPT !.drained = Some(m.raster_output_buffers)],
                      r, fail, 1)
             b == IF Running(a)
                  THEN [a EXCEPT !.raster_output_buffers = <<>>] ELSE a
             c == ReadFeatureBuffers(b, r, fail, at, 1)
         IN  IF Running(c)
             THEN [c EXCEPT !.feature_output_buffers = <<>>] ELSE c

\* A run that reads the output buffers back before it enqueues the kernel.
RunReadBeforeEnqueue(c, r, fail, at) ==
    LET queue == DeviceOp(RunStart, fail, "queue", Ev("queue_new", "", 0))
        todo == IF PlaceholdersTodo(c) THEN Fail(queue, "Panic") ELSE queue
        ph == set_argument_placeholders(c)
        declared == IF Running(todo)
                    THEN [todo EXCEPT !.placeholders = ph] ELSE todo
        built == DeviceOp(declared, fail, "kernel", Ev("kernel_build", "", 0))
        rasters == set_raster_arguments(built, r, ph, fail)
        features == set_feature_arguments(rasters, r, ph, fail)
        dims == work_size(features, c, r)
        read == read_output_buffers(dims, r, fail, at)
        enq == DeviceOp(read, fail, "enqueue", Ev("enqueue", "", 0))
    IN  IF Running(enq) THEN [enq EXCEPT !.res = "Ok"] ELSE enq

\* CompiledCLProgram::run on the runnable r; (fail, at) names the step
\* that fails, if any.
Run(c, r, fail, at) ==
    LET queue == DeviceOp(RunStart, fail, "queue", Ev("queue_new", "", 0))
        todo == IF PlaceholdersTodo(c) THEN Fail(queue, "Panic") ELSE queue
        ph == set_argument_placeholders(c)
        declared == IF Running(todo)
                    THEN [todo EXCEPT !.placeholders = ph] ELSE todo
        built == DeviceOp(declared, fail, "kernel", Ev("kernel_build", "", 0))
        rasters == set_raster_arguments(built, r, ph, fail)
        features == set_feature_arguments(rasters, r, ph, fail)
        dims == work_size(features, c, r)
        enq == DeviceOp(dims, fail, "enqueue", Ev("enqueue", "", 0))
        read == read_output_buffers(enq, r, fail, at)
    IN  IF Running(read) THEN [read EXCEPT !.res = "Ok"] ELSE read

\* A run that moves the output descriptors out of the compiled program.
RunTakingDescriptors ==
    /\ phase = "bound"
    /\ \E fail \in RunFailure :
         LET out == Run(compiled, runnable, fail, 0)
         IN  /\ result' = out.res
             /\ log' = out.log
             /\ lastArgs' = [NoArgs EXCEPT !.fail = fail]
             /\ phase' = IF out.res = "Panic" THEN "aborted" ELSE "compiled"
             /\ kernel' = [placeholders |-> out.placeholders,
                           global_work_size |-> out.global_work_size,
                           written |-> out.written,
                           drained |-> out.drained,
                           rejected |-> out.rejected,
                           sized |-> out.sized]
    /\ lastOp' = "run"
    /\ ran' = runnable
    /\ runnable' = NoRunnable
    /\ compiled' = [compiled EXCEPT !.output_raster_types = <<>>,
                                    !.output_feature_types = <<>>]
    /\ UNCHANGED <<program, device, typedefs, raster_info, elsewhere>>

\* CompiledCLProgram::run with one of the failures `failing`, each a
\* pair of a step and the output slot it strikes.
CallRun(failing) ==
    /\ phase = "bound"
    /\ \E f \in failing :
         LET fail == f[1]
             out == Run(compiled, runnable, fail, f[2])
         IN  /\ result' = out.res
             /\ log' = out.log
             /\ lastArgs' = [NoArgs EXCEPT !.fail = fail, !.idx = f[2]]
             /\ phase' = IF out.res = "Panic" THEN "aborted" ELSE "compiled"
             /\ kernel' = [placeholders |-> out.placeholders,
                           global_work_size |-> out.global_work_size,
                           written |-> out.written,
                           drained |-> out.drained,
                           rejected |-> out.rejected,
                           sized |-> out.sized]
    /\ lastOp' = "run"
    /\ ran' = runnable
    /\ runnable' = NoRunnable
    /\ UNCHANGED <<program, compiled, device, typedefs, raster_info, elsewhere>>

run == CallRun(RunFailure \X {0})

Next ==
    \/ add_input_raster
    \/ add_output_raster
    \/ add_input_features
    \/ add_output_features
    \/ compile
    \/ runnable_
    \/ set_input_raster
    \/ set_output_raster
    \/ set_input_features
    \/ set_output_features
    \/ run

Spec == Init /\ [][Next]_vars

\* ------------------------------------------------- shapes and work sizes
\* The same operations over rasters of two shapes and builders of two
\* sizes, one of them without features, for programs of one element type and
\* one geometry kind.
ShapedRasterArguments == {RasterArgument("I32")}

ShapedVectorArguments == {VectorArgument("MultiPoint", <<>>, <<>>)}

ShapedRaster2D == [data_type : {"I32"}, width : {3, 2}, height : {2}]

ShapedFeatureCollection == [vector_type : {"MultiPoint"}, column : {"absent"}]

ShapedBatchBuilder ==
    [output_type : {"MultiPoint"}, num_features : {3, 0}, num_coords : {4}]

NextShape ==
    \/ AddInputRaster(ShapedRasterArguments)
    \/ AddOutputRaster(ShapedRasterArguments)
    \/ AddInputFeatures(ShapedVectorArguments)
    \/ AddOutputFeatures(ShapedVectorArguments)
    \/ compile
    \/ runnable_
    \/ CallSetInputRaster(ShapedRaster2D)
    \/ CallSetOutputRaster(ShapedRaster2D)
    \/ CallSetInputFeatures(ShapedFeatureCollection)
    \/ CallSetOutputFeatures(ShapedBatchBuilder)
    \/ CallRun((RunFailure \X {0})
                   \cup (BuilderFailure \X (0 .. MaxArgs - 2)))

SpecShape == Init /\ [][NextShape]_vars

\* ------------------------------------------------- declarations of any type
\* Declaration and compile over rasters of all ten element types.
AnyRasterArguments == {RasterArgument(t) : t \in RasterDataType}

NextPrelude ==
    \/ AddInputRaster(AnyRasterArguments)
    \/ AddOutputRaster(AnyRasterArguments)
    \/ AddInputFeatures(ShapedVectorArguments)
    \/ AddOutputFeatures(ShapedVectorArguments)
    \/ compile

SpecPrelude == Init /\ [][NextPrelude]_vars

\* ------------------------------------------------------------- RasterInfo
\* A 64-bit usize, split into its high and its low 32 bits.  A cl_uint is a
\* word whose high half is 0.
Word(hi32, lo32) == [hi32 |-> hi32, lo32 |-> lo32]

\* usize `as_` cl_uint: the cast keeps the low 32 bits.
as_cl_uint(n) == Word(0, n.lo32)

\* A no-data value `as_` cl_double.  The explored values are NaN and small
\* integers, which the cast leaves NaN and carries over exactly.
as_cl_double(v) == IF isnan(v) THEN NaN ELSE Number(v.value)

\* Axis sizes of the explored rasters: two that fit in 32 bits and one that
\* does not.
AxisSizes == {Word(0, 3), Word(0, 2), Word(1, 3)}

\* No-data values of a raster of the given element type.
NoDataValues(data_type) ==
    {None, Some(Number(0)), Some(Number(1337))}
        \cup (IF data_type \in {"F32", "F64"} THEN {Some(NaN)} ELSE {})

\* Raster2D<T>, as far as from_raster reads it.
Raster2D ==
    {[data_type |-> t, width |-> w, height |-> h, no_data_value |-> n] :
        t \in RasterDataType, w \in AxisSizes, h \in AxisSizes,
        n \in ({None, Some(Number(0)), Some(Number(1337)), Some(NaN)})}

\* A from_raster that stores the y axis first.
FromRasterHeightFirst(raster) ==
    [size |-> <<as_cl_uint(raster.height), as_cl_uint(raster.width),
                Word(0, 1)>>,
     origin |-> <<Number(0), Number(0), Number(0)>>,
     scale |-> <<Number(0), Number(0), Number(0)>>,
     min |-> Number(0),
     max |-> Number(0),
     no_data |-> IF IsSome(raster.no_data_value)
                 THEN as_cl_double(raster.no_data_value[1])
                 ELSE Number(0),
     crs_code |-> 0,
     has_no_data |-> IF IsSome(raster.no_data_value) THEN 1 ELSE 0]

\* RasterInfo::from_raster
FromRaster(raster) ==
    [size |-> <<as_cl_uint(raster.width), as_cl_uint(raster.height),
                Word(0, 1)>>,
     origin |-> <<Number(0), Number(0), Number(0)>>,
     scale |-> <<Number(0), Number(0), Number(0)>>,
     min |-> Number(0),
     max |-> Number(0),
     no_data |-> IF IsSome(raster.no_data_value)
                 THEN as_cl_double(raster.no_data_value[1])
                 ELSE Number(0),
     crs_code |-> 0,
     has_no_data |-> IF IsSome(raster.no_data_value) THEN 1 ELSE 0]

from_raster ==
    /\ \E raster \in Raster2D :
         /\ raster.no_data_value \in NoDataValues(raster.data_type)
         /\ raster_info' = <<raster, FromRaster(raster)>>
    /\ lastOp' = "from_raster"
    /\ UNCHANGED <<phase, program, compiled, runnable, device, lastArgs,
                   result, ran, log, typedefs, kernel, elsewhere>>

NextInfo == from_raster

SpecInfo == Init /\ [][NextInfo]_vars

\* ------------------------------------------------------ raster programs
\* Programs of rasters only, one argument longer than elsewhere: input
\* rasters of one element type, output rasters of two, so that two output
\* rasters of different types can be bound (binding output slot 1 takes two
\* declared inputs).
NextRasters ==
    \/ AddInputRasterUpTo(ShapedRasterArguments, MaxArgs + 1)
    \/ AddOutputRasterUpTo(RasterArguments, MaxArgs + 1)
    \/ compile
    \/ runnable_
    \/ CallSetInputRaster(ShapedRaster2D)
    \/ CallSetOutputRaster(TypedRaster2D)
    \/ run

SpecRasters == Init /\ [][NextRasters]_vars

\* ---------------------------------------------------------- f64 arithmetic
\* A finite binary floating-point number: significand * 2^exponent, with
\* 2^(MantissaBits-1) <= |significand| < 2^MantissaBits, or zero.  The
\* explored values stay far from the exponent limits, so the exponent is
\* unbounded; infinities and NaN do not arise for non-zero pixel sizes.
Abs(n) == IF n < 0 THEN 0 - n ELSE n

BitLength(a) == CHOOSE n \in 1..30 : 2 ^ (n - 1) <= a /\ a < 2 ^ n

\* n * 2^e (plus a positive fraction below one unit of n when sticky)
\* rounded to the nearest representable number, ties to the even
\* significand: the rounding of every f64 operation.
Round(n, e, sticky) ==
    IF n = 0 THEN [significand |-> 0, exponent |-> 0]
    ELSE LET a == Abs(n)
             sign == IF n < 0 THEN 0 - 1 ELSE 1
             bits == BitLength(a)
         IN  IF bits <= MantissaBits
             THEN [significand |-> sign * a * 2 ^ (MantissaBits - bits),
                   exponent |-> e - (MantissaBits - bits)]
             ELSE LET shift == bits - MantissaBits
                      q == a \div 2 ^ shift
                      r == a % 2 ^ shift
                      half == 2 ^ (shift - 1)
                      up == \/ r > half
                            \/ r = half /\ sticky
                            \/ r = half /\ ~sticky /\ q % 2 = 1
                      m == IF up THEN q + 1 ELSE q
                  IN  IF m = 2 ^ MantissaBits
                      THEN [significand |-> sign * 2 ^ (MantissaBits - 1),
                            exponent |-> e + shift + 1]
                      ELSE [significand |-> sign * m, exponent |-> e + shift]

\* The f64 nearest to n * 2^e: how the explored values are written.
Float(n, e) == Round(n, e, FALSE)

\* a + b, a - b, a * b and a / b on f64 (b # 0 for the division).
f64_add(a, b) ==
    LET e == IF a.exponent <= b.exponent THEN a.exponent ELSE b.exponent
    IN  Round(a.significand * 2 ^ (a.exponent - e)
                  + b.significand * 2 ^ (b.exponent - e), e, FALSE)

f64_sub(a, b) ==
    f64_add(a, [b EXCEPT !.significand = 0 - b.significand])

f64_mul(a, b) ==
    Round(a.significand * b.significand, a.exponent + b.exponent, FALSE)

f64_div(a, b) ==
    LET n == Abs(a.significand) * 2 ^ (MantissaBits + 2)
        d == Abs(b.significand)
        sign == IF (a.significand < 0) = (b.significand < 0) THEN 1 ELSE 0 - 1
    IN  Round(sign * (n \div d),
              a.exponent - b.exponent - (MantissaBits + 2), n % d # 0)

\* `as f64` on a usize.
usize_as_f64(n) == Round(n, 0, FALSE)

\* An `as usize` that wraps a negative number to its magnitude.
F64AsUsizeMagnitude(v) ==
    IF v.exponent >= 0
    THEN Abs(v.significand) * 2 ^ v.exponent
    ELSE Abs(v.significand) \div 2 ^ (0 - v.exponent)

\* `as usize` on an f64: the fraction is dropped, a negative number becomes
\* 0 (the cast saturates; the explored values stay below usize::MAX).
f64_as_usize(v) ==
    IF v.significand <= 0 THEN 0
    ELSE IF v.exponent >= 0
    THEN v.significand * 2 ^ v.exponent
    ELSE v.significand \div 2 ^ (0 - v.exponent)

\* ------------------------------------------------------------ GeoTransform
Coordinate2D(x, y) == [x |-> x, y |-> y]

\* GeoTransform::new_with_coordinate_x_y
new_with_coordinate_x_y(upper_left_x_coordinate, x_pixel_size, upper_left_y_coordinate, y_pixel_size) ==
    [upper_left_coordinate |->
         Coordinate2D(upper_left_x_coordinate, upper_left_y_coordinate),
     x_pixel_size |-> x_pixel_size,
     y_pixel_size |-> y_pixel_size]

\* GeoTransform::grid_2d_to_coordinate_2d; grid_index is <<row, column>>.
GridToCoordinate(self, grid_index) ==
    LET grid_index_y == grid_index[1]
        grid_index_x == grid_index[2]
        coord_x == f64_add(self.upper_left_coordinate.x,
                           f64_mul(usize_as_f64(grid_index_x),
                                   self.x_pixel_size))
        coord_y == f64_add(self.upper_left_coordinate.y,
                           f64_mul(usize_as_f64(grid_index_y),
                                   self.y_pixel_size))
    IN  Coordinate2D(coord_x, coord_y)

\* GeoTransform::coordinate_2d_to_grid_2d; the value is <<row, column>>.
CoordinateToGrid(self, coord) ==
    LET grid_x_index ==
            f64_as_usize(f64_div(f64_sub(coord.x, self.upper_left_coordinate.x),
                                 self.x_pixel_size))
        grid_y_index ==
            f64_as_usize(f64_div(f64_sub(coord.y, self.upper_left_coordinate.y),
                                 self.y_pixel_size))
    IN  <<grid_y_index, grid_x_index>>

\* A conversion that reads the upper-left y from index 2 of the array.
GeoTransformFromRotation(gdal_geo_transform) ==
    new_with_coordinate_x_y(gdal_geo_transform[1], gdal_geo_transform[2],
                            gdal_geo_transform[3], gdal_geo_transform[6])

\* From<GdalGeoTransform> for GeoTransform (array indices 0, 1, 3, 5).
GeoTransformFrom(gdal_geo_transform) ==
    new_with_coordinate_x_y(gdal_geo_transform[1], gdal_geo_transform[2],
                            gdal_geo_transform[4], gdal_geo_transform[6])

\* Into<GdalGeoTransform> for GeoTransform
GeoTransformInto(self) ==
    <<self.upper_left_coordinate.x, self.x_pixel_size, Float(0, 0),
      self.upper_left_coordinate.y, Float(0, 0), self.y_pixel_size>>

\* The explored transforms: origins 0, 5 and 16, pixel sizes 1 and 1.25
\* (negative along y, as for a north-up raster); all pixel sizes non-zero.
UpperLefts == {Float(0, 0), Float(5, 0), Float(16, 0)}

GeoTransforms == {new_with_coordinate_x_y(x, xs, y, ys) : x \in UpperLefts, xs \in {Float(1, 0), Float(5, 0 - 2)}, y \in {Float(5, 0)}, ys \in {Float(0 - 1, 0), Float(0 - 5, 0 - 2)}}

GridIndices == (0 .. 2) \X (0 .. 3)

\* World points on both sides of every explored upper-left corner.
WorldPoints == {Coordinate2D(x, y) : x \in {Float(0, 0), Float(9, 0 - 1), Float(15, 0 - 1), Float(18, 0)}, y \in {Float(5, 0), Float(3, 0), Float(15, 0 - 1)}}

\* Six-element arrays, with zero and non-zero rotation terms (2 and 4).
GdalGeoTransforms == {<<x, Float(1, 0), r2, Float(5, 0), r4, Float(0 - 1, 0)>> : x \in UpperLefts, r2 \in {Float(0, 0), Float(3, 0)}, r4 \in {Float(0, 0), Float(7, 0)}}

\* One call: the method, its receiver, its argument, its value, and in
\* `of` the argument of the previous call when this call was applied to
\* that call's value.
GeoCall(op, self, arg, value, of) == [op |-> op, self |-> self, arg |-> arg, value |-> value, of |-> of]

grid_2d_to_coordinate_2d ==
    /\ \E self \in GeoTransforms, grid_index \in GridIndices :
           geo' = GeoCall("grid_2d_to_coordinate_2d", self, grid_index,
                          GridToCoordinate(self, grid_index), None)
    /\ UNCHANGED <<phase, program, compiled, runnable, device, lastOp,
                   lastArgs, result, ran, log, typedefs, kernel, raster_info,
                   operator, threads, once>>

\* On any world point, or on the coordinate the previous call returned.
coordinate_2d_to_grid_2d ==
    /\ \/ \E self \in GeoTransforms, coord \in WorldPoints :
              geo' = GeoCall("coordinate_2d_to_grid_2d", self, coord,
                             CoordinateToGrid(self, coord), None)
       \/ /\ geo.op = "grid_2d_to_coordinate_2d"
          /\ geo' = GeoCall("coordinate_2d_to_grid_2d", geo.self, geo.value,
                            CoordinateToGrid(geo.self, geo.value),
                            Some(geo.arg))
    /\ UNCHANGED <<phase, program, compiled, runnable, device, lastOp,
                   lastArgs, result, ran, log, typedefs, kernel, raster_info,
                   operator, threads, once>>

\* GeoTransform::from(array), on any array or on the previous into().
from_gdal_geo_transform ==
    /\ \/ \E gdal_geo_transform \in GdalGeoTransforms :
              geo' = GeoCall("from", None, gdal_geo_transform,
                             GeoTransformFrom(gdal_geo_transform), None)
       \/ /\ geo.op = "into"
          /\ geo' = GeoCall("from", None, geo.value,
                            GeoTransformFrom(geo.value), Some(geo.self))
    /\ UNCHANGED <<phase, program, compiled, runnable, device, lastOp,
                   lastArgs, result, ran, log, typedefs, kernel, raster_info,
                   operator, threads, once>>

\* transform.into(), on any transform or on the previous from().
into_gdal_geo_transform ==
    /\ \/ \E self \in GeoTransforms :
              geo' = GeoCall("into", self, None, GeoTransformInto(self), None)
       \/ /\ geo.op = "from"
          /\ geo' = GeoCall("into", geo.value, None,
                            GeoTransformInto(geo.value), Some(geo.arg))
    /\ UNCHANGED <<phase, program, compiled, runnable, device, lastOp,
                   lastArgs, result, ran, log, typedefs, kernel, raster_info,
                   operator, threads, once>>

NextGeo ==
    \/ grid_2d_to_coordinate_2d
    \/ coordinate_2d_to_grid_2d
    \/ from_gdal_geo_transform
    \/ into_gdal_geo_transform

SpecGeo == Init /\ [][NextGeo]_vars

\* ----------------------------------------------------------------- claims


\* ------------------------------------------------- DEVICE and the contexts
\* Each thread calls compile once, on a program that passes the gate, and
\* then runs the compiled program once.  threads[t] is the position of
\* thread t in that code, the context its compile built (0: none yet) and
\* the device and context its run made the queue for.
Thread(pc, ctx, queue) == [pc |-> pc, ctx |-> ctx, queue |-> queue]

\* CLProgram::compile up to `let device = *DEVICE;`.
CompileStart(t) ==
    /\ t \notin DOMAIN threads
    /\ threads' = threads @@ (t :> Thread("deref", 0, None))
    /\ UNCHANGED once

\* A DEVICE without the one-time guard: every access runs the initializer.
DerefDeviceUnguarded(t) ==
    /\ t \in DOMAIN threads
    /\ threads[t].pc = "deref"
    /\ threads' = [threads EXCEPT ![t].pc = "first"]
    /\ once' = [once EXCEPT !.DEVICE = "initialising"]

\* *DEVICE: the first thread to come here runs the initializer; a thread
\* that comes while the initializer runs waits; afterwards the value is
\* read, or the access panics when the initializer panicked.
DerefDevice(t) ==
    /\ t \in DOMAIN threads
    /\ threads[t].pc = "deref"
    /\ \/ /\ once.DEVICE = "uninitialised"
          /\ threads' = [threads EXCEPT ![t].pc = "first"]
          /\ once' = [once EXCEPT !.DEVICE = "initialising"]
       \/ /\ once.DEVICE = "ready"
          /\ threads' = [threads EXCEPT ![t].pc = "context"]
          /\ UNCHANGED once
       \/ /\ once.DEVICE = "poisoned"
          /\ threads' = [threads EXCEPT ![t].pc = "panicked"]
          /\ UNCHANGED once

\* The initializer Device::first(Platform::default()).expect(..): the
\* platform has a device, or the expect panics.
DeviceFirst(t) ==
    /\ t \in DOMAIN threads
    /\ threads[t].pc = "first"
    /\ \/ /\ threads' = [threads EXCEPT ![t].pc = "context"]
          /\ once' = [once EXCEPT !.DEVICE = "ready",
                                  !.device_first = @ + 1]
       \/ /\ threads' = [threads EXCEPT ![t].pc = "panicked"]
          /\ once' = [once EXCEPT !.DEVICE = "poisoned",
                                  !.device_first = @ + 1]

\* Context::builder().platform(platform).devices(device).build()?
ContextBuild(t) ==
    /\ t \in DOMAIN threads
    /\ threads[t].pc = "context"
    /\ \/ /\ threads' = [threads EXCEPT ![t].pc = "program",
                                        ![t].ctx = once.contexts + 1]
          /\ once' = [once EXCEPT !.contexts = @ + 1]
       \/ /\ threads' = [threads EXCEPT ![t].pc = "failed"]
          /\ UNCHANGED once

\* ProgramBuilder::new().src(..).src(..).build(&ctx)? and the Ok of compile.
ProgramBuild(t) ==
    /\ t \in DOMAIN threads
    /\ threads[t].pc = "program"
    /\ \/ threads' = [threads EXCEPT ![t].pc = "compiled"]
       \/ threads' = [threads EXCEPT ![t].pc = "failed"]
    /\ UNCHANGED once

\* Queue::new(&self.ctx, self.ctx.devices()[0], None) of run.
QueueNew(t) ==
    /\ t \in DOMAIN threads
    /\ threads[t].pc = "compiled"
    /\ threads' = [threads EXCEPT
                      ![t].pc = "ran",
                      ![t].queue = Some([ctx |-> threads[t].ctx,
                                         device |-> once.DEVICE])]
    /\ UNCHANGED once

NextDevice ==
    /\ \E t \in 1..NumThreads :
           \/ CompileStart(t)
           \/ DerefDevice(t)
           \/ DeviceFirst(t)
           \/ ContextBuild(t)
           \/ ProgramBuild(t)
           \/ QueueNew(t)
    /\ UNCHANGED <<phase, program, compiled, runnable, device, lastOp,
                   lastArgs, result, ran, log, typedefs, kernel, raster_info,
                   geo, operator>>

SpecDevice == Init /\ [][NextDevice]_vars

\* ------------------------------------------- InitializedOperatorImpl::create
\* What a source's initialize, state_fn or result_descriptor_fn returns.
Outcomes == {"Ok", "Err"}

SourceOutcomes == UNION {[1..n -> Outcomes] : n \in 0..MaxSources}

\* One call made by create: the step and, for a source, its list index.
Step(step, idx) == [step |-> step, idx |-> idx]

\* The Err of a step (each failing step has its own error), and Ok(Self).
ErrOf(call) == [res |-> "Err", step |-> call.step, idx |-> call.idx]

OkSelf == [res |-> "Ok", step |-> "", idx |-> 0]

\* A collect that initializes every source, also after a failure.
InitializeEvery(kind, sources) ==
    [k \in 1..Len(sources) |-> Step(kind, k - 1)]

\* sources.into_iter().map(|o| o.initialize(context)).collect::<Result<_>>():
\* the sources are initialized in list order up to the first Err.
Initialize(kind, sources) ==
    LET failing == {k \in 1..Len(sources) : sources[k] = "Err"}
        last == IF failing = {} THEN Len(sources)
                ELSE CHOOSE k \in failing : \A j \in failing : k <= j
    IN  [k \in 1..last |-> Step(kind, k - 1)]

\* The result of a list of calls that ran up to the first Err.
Collected(calls, sources) ==
    IF calls # <<>> /\ sources[Len(calls)] = "Err"
    THEN ErrOf(calls[Len(calls)]) ELSE OkSelf

\* InitializedOperatorImpl::create: the calls it makes and its value.
Create(raster_sources, vector_sources, state_fn, result_descriptor_fn) ==
    LET rasters == Initialize("raster_source", raster_sources)
        vectors == Initialize("vector_source", vector_sources)
        state == Step("state_fn", 0)
        descriptor == Step("result_descriptor_fn", 0)
    IN  IF Collected(rasters, raster_sources) # OkSelf
        THEN [calls |-> rasters,
              value |-> Collected(rasters, raster_sources)]
        ELSE IF Collected(vectors, vector_sources) # OkSelf
        THEN [calls |-> rasters \o vectors,
              value |-> Collected(vectors, vector_sources)]
        ELSE IF state_fn = "Err"
        THEN [calls |-> rasters \o vectors \o <<state>>,
              value |-> ErrOf(state)]
        ELSE IF result_descriptor_fn = "Err"
        THEN [calls |-> rasters \o vectors \o <<state, descriptor>>,
              value |-> ErrOf(descriptor)]
        ELSE [calls |-> rasters \o vectors \o <<state, descriptor>>,
              value |-> OkSelf]

create ==
    /\ \E raster_sources \in SourceOutcomes, vector_sources \in SourceOutcomes, state_fn \in Outcomes, result_descriptor_fn \in Outcomes :
           LET out == Create(raster_sources, vector_sources, state_fn,
                             result_descriptor_fn)
           IN  operator' = [op |-> "create",
                            raster_sources |-> raster_sources,
                            vector_sources |-> vector_sources,
                            state_fn |-> state_fn,
                            result_descriptor_fn |-> result_descriptor_fn,
                            calls |-> out.calls, value |-> out.value]
    /\ UNCHANGED <<phase, program, compiled, runnable, device, lastOp,
                   lastArgs, result, ran, log, typedefs, kernel, raster_info,
                   geo, threads, once>>

NextCreate == create

SpecCreate == Init /\ [][NextCreate]_vars

\* C1: compile returns InvalidInputsForIterationType exactly when the
\* declaration misses the minimum of its iteration type (Raster: no input
\* raster or no output raster; VectorFeatures / VectorCoordinates: no input
\* feature list or no output feature list), whatever else was declared.
C1_GateExactlyOnMissingMinimum ==
    lastOp = "compile" =>
        LET misses ==
                IF program.iteration_type = "Raster"
                THEN Len(program.input_rasters) < 1
                         \/ Len(program.output_rasters) < 1
                ELSE Len(program.input_features) < 1
                         \/ Len(program.output_features) < 1
        IN  (result = "InvalidInputsForIterationType") <=> misses

\* A Raster program with an input raster and an output feature list, but no
\* output raster, was rejected by the gate.
W1_RasterProgramWithoutOutputRejected ==
    /\ lastOp = "compile"
    /\ result = "InvalidInputsForIterationType"
    /\ program.iteration_type = "Raster"
    /\ Len(program.input_rasters) >= 1
    /\ Len(program.output_features) >= 1

\* C2: a compile that fails the declaration gate does no device work: no
\* platform or device query, no context, no program build, and the DEVICE
\* singleton is left as it was.
C2_FailedGateTouchesNoDevice ==
    [][(lastOp' = "compile" /\ result' = "InvalidInputsForIterationType")
           => (log' = <<>> /\ device' = device)]_vars

\* A vector program with input features only was rejected by the gate.
W2_VectorProgramRejected ==
    /\ lastOp = "compile"
    /\ result = "InvalidInputsForIterationType"
    /\ program.iteration_type = "VectorFeatures"
    /\ Len(program.input_features) >= 1
    /\ log = <<>>

\* C3: set_output_raster(i, raster) returns InvalidRasterIndex exactly when
\* i is not smaller than the number of declared output rasters.
X3_OutputIndexAgainstOutputList ==
    lastOp = "set_output_raster" =>
        ((result = "InvalidRasterIndex")
            <=> ~(lastArgs.idx < Len(runnable.output_raster_types)))

\* C4: set_input_features(i, collection) with i in range and the declared
\* geometry kind fails with MissingColumn or ColumnTypeMismatch, and does
\* not bind the slot, when some declared (name, type) is no column of the
\* collection or is a column of another type.
X4_ColumnMismatchRejected ==
    [][(/\ lastOp' = "set_input_features"
        /\ lastArgs'.idx < Len(runnable.input_feature_types)
        /\ LET arg == runnable.input_feature_types[lastArgs'.idx + 1]
           IN  /\ lastArgs'.tag = arg.vector_type
               /\ \E k \in 1..Len(arg.columns) :
                      \/ arg.columns[k] # ColumnName
                      \/ lastArgs'.column # arg.column_types[k])
           => (/\ result' \in {"MissingColumn", "ColumnTypeMismatch"}
               /\ runnable' = runnable)]_vars

\* C5: binding, at an index inside the declared list, a value whose type tag
\* differs from the descriptor fails and leaves the runnable as it was:
\* InvalidRasterDataType from set_input_raster and set_output_raster,
\* InvalidVectorDataType from set_input_features.
X5_TagMismatchRejected ==
    [][/\ (/\ lastOp' = "set_input_raster"
           /\ lastArgs'.idx < Len(runnable.input_raster_types)
           /\ lastArgs'.tag
                 # runnable.input_raster_types[lastArgs'.idx + 1].data_type)
              => (result' = "InvalidRasterDataType" /\ runnable' = runnable)
       /\ (/\ lastOp' = "set_output_raster"
           /\ lastArgs'.idx < Len(runnable.output_raster_types)
           /\ lastArgs'.tag
                 # runnable.output_raster_types[lastArgs'.idx + 1].data_type)
              => (result' = "InvalidRasterDataType" /\ runnable' = runnable)
       /\ (/\ lastOp' = "set_input_features"
           /\ lastArgs'.idx < Len(runnable.input_feature_types)
           /\ lastArgs'.tag
                 # runnable.input_feature_types[lastArgs'.idx + 1].vector_type)
              => (result' = "InvalidVectorDataType" /\ runnable' = runnable)
      ]_vars

\* C6: set_input_raster, set_input_features and set_output_features return
\* their index error (InvalidRasterIndex / InvalidFeaturesIndex) exactly for
\* an index not smaller than the length of their own declared list, whatever
\* the type of the value (the index is checked first), and a failing call
\* leaves every slot of the runnable unchanged.
C6_IndexCheckedFirstAndFailureFrame ==
    [][/\ lastOp' = "set_input_raster"
           => /\ (result' = "InvalidRasterIndex")
                    <=> ~(lastArgs'.idx < Len(runnable.input_raster_types))
              /\ result' # "Ok" => runnable' = runnable
       /\ lastOp' = "set_input_features"
           => /\ (result' = "InvalidFeaturesIndex")
                    <=> ~(lastArgs'.idx < Len(runnable.input_feature_types))
              /\ result' # "Ok" => runnable' = runnable
       /\ lastOp' = "set_output_features"
           => /\ (result' = "InvalidFeaturesIndex")
                    <=> ~(lastArgs'.idx < Len(runnable.output_feature_types))
              /\ result' # "Ok" => runnable' = runnable
      ]_vars

\* set_input_raster rejected an index behind a non-empty input raster list
\* although the raster had the type declared at index 0.
W6_IndexRejectedBeforeType ==
    /\ lastOp = "set_input_raster"
    /\ result = "InvalidRasterIndex"
    /\ Len(runnable.input_raster_types) >= 1
    /\ lastArgs.idx = Len(runnable.input_raster_types)
    /\ lastArgs.tag = runnable.input_raster_types[1].data_type

\* C7: on a device that never fails, run on a runnable with an unbound input
\* raster slot returns UnspecifiedRaster, and run on a runnable with every
\* input raster bound and an unbound input feature slot returns
\* UnspecifiedFeatures; neither enqueues the kernel nor reads an output back.
X7_UnboundInputReported ==
    (lastOp = "run" /\ lastArgs.fail = "none") =>
        LET rasterUnbound ==
                \E i \in 1..Len(ran.input_rasters) :
                    ~IsSome(ran.input_rasters[i])
            featuresUnbound ==
                \E i \in 1..Len(ran.input_features) :
                    ~IsSome(ran.input_features[i])
            quiet ==
                \A k \in 1..Len(log) :
                    log[k].op \notin {"enqueue", "read", "set_points", "finish"}
        IN  /\ rasterUnbound => (result = "UnspecifiedRaster" /\ quiet)
            /\ (~rasterUnbound /\ featuresUnbound)
                  => (result = "UnspecifiedFeatures" /\ quiet)

\* C8 as stated: the check of the input slots is the first step of run, so
\* an UnspecifiedRaster or UnspecifiedFeatures result is preceded by no
\* kernel construction and by no buffer allocation or upload.
X8_CheckIsFirstStep ==
    (lastOp = "run"
        /\ result \in {"UnspecifiedRaster", "UnspecifiedFeatures"})
            => log = <<>>

\* C8 as amended: run constructs the queue and the kernel first.  An
\* UnspecifiedRaster result is preceded by exactly these two steps and by no
\* buffer; an UnspecifiedFeatures result is preceded by them and by nothing
\* but the uploads, allocations and set_arg calls of the raster arguments.
\* Neither is preceded by a feature buffer, the kernel enqueue or a readback.
C8_CheckPrecedesItsBuffers ==
    lastOp = "run" =>
        LET built == <<Ev("queue_new", "", 0), Ev("kernel_build", "", 0)>>
        IN  /\ result = "UnspecifiedRaster" => log = built
            /\ result = "UnspecifiedFeatures"
                  => /\ Len(log) >= 2
                     /\ SubSeq(log, 1, 2) = built
                     /\ \A k \in 3..Len(log) :
                          /\ log[k].op \in {"upload", "alloc", "set_arg"}
                          /\ log[k].kind
                                \in {"IN", "IN_INFO", "OUT", "OUT_INFO"}

\* run returned UnspecifiedFeatures after it had uploaded an input raster.
W8_FeaturesMissedAfterRasterUpload ==
    /\ lastOp = "run"
    /\ result = "UnspecifiedFeatures"
    /\ \E k \in 1..Len(log) : log[k] = Ev("upload", "IN", 0)

\* C9: run never aborts the process: for every binding state it completes
\* or returns an error value.
X9_RunNeverPanics ==
    lastOp = "run" => result # "Panic"

\* C10: a program that declares a MultiLineString or MultiPolygon feature
\* argument and meets its minimum compiles, and on a device that never fails
\* running it returns UnsupportedGeometry.
X10_ReservedGeometryReported ==
    LET reserved == {"MultiLineString", "MultiPolygon"}
        declares(c) ==
            \/ \E i \in 1..Len(c.input_feature_types) :
                 c.input_feature_types[i].vector_type \in reserved
            \/ \E i \in 1..Len(c.output_feature_types) :
                 c.output_feature_types[i].vector_type \in reserved
    IN  /\ (/\ lastOp = "compile"
            /\ lastArgs.fail = "none"
            /\ result # "InvalidInputsForIterationType"
            /\ declares(CompiledCLProgramNew("kernel", program)))
              => result = "Ok"
        /\ (lastOp = "run" /\ lastArgs.fail = "none" /\ declares(compiled))
              => result = "UnsupportedGeometry"

\* C11: in a run that returns Ok the kernel is enqueued exactly once; every
\* upload of an input and every allocation of an output buffer comes before
\* that enqueue and every readback after it; each bound input raster was
\* uploaded and each output raster buffer is read back exactly once.
C11_UploadEnqueueReadOrder ==
    (lastOp = "run" /\ result = "Ok") =>
        LET at(op) == {k \in 1..Len(log) : log[k].op = op}
            of(ev) == {k \in 1..Len(log) : log[k] = ev}
        IN  /\ Cardinality(at("enqueue")) = 1
            /\ \A e \in at("enqueue") :
                  /\ \A k \in at("upload") \cup at("alloc") : k < e
                  /\ \A k \in at("read") : e < k
            /\ \A i \in 1..Len(ran.input_rasters) :
                  Cardinality(of(Ev("upload", "IN", i - 1))) = 1
            /\ \A i \in 1..Len(ran.output_rasters) :
                  /\ Cardinality(of(Ev("alloc", "OUT", i - 1))) = 1
                  /\ Cardinality(of(Ev("read", "OUT", i - 1))) = 1

\* A successful run that uploaded an input raster and read an output raster
\* back.
W11_RasterRunSucceeded ==
    /\ lastOp = "run"
    /\ result = "Ok"
    /\ \E k \in 1..Len(log) : log[k] = Ev("upload", "IN", 0)
    /\ \E k \in 1..Len(log) : log[k] = Ev("read", "OUT", 0)

\* C12: a run of a Raster program enqueues the kernel only when every bound
\* input raster and every bound output raster has the width and height of
\* output raster 0.
X12_EnqueueOnlyOnEqualShapes ==
    (/\ lastOp = "run"
     /\ compiled.iteration_type = "Raster"
     /\ \E k \in 1..Len(log) : log[k].op = "enqueue")
        => LET shape(o) == <<o[1].width, o[1].height>>
               first == shape(ran.output_rasters[1])
           IN  /\ \A i \in 1..Len(ran.input_rasters) :
                     IsSome(ran.input_rasters[i])
                         => shape(ran.input_rasters[i]) = first
               /\ \A i \in 1..Len(ran.output_rasters) :
                     IsSome(ran.output_rasters[i])
                         => shape(ran.output_rasters[i]) = first

\* C13: the global work size of an enqueued kernel is, for Raster, the pair
\* (width, height) of output raster 0, for VectorFeatures the number of
\* features of output builder 0 and for VectorCoordinates its number of
\* coordinates, whatever is bound at the other indices.
C13_WorkSizeFromOutputZero ==
    (lastOp = "run" /\ \E k \in 1..Len(log) : log[k].op = "enqueue")
        => kernel.global_work_size
             = CASE compiled.iteration_type = "Raster"
                      -> <<ran.output_rasters[1][1].width,
                           ran.output_rasters[1][1].height>>
                 [] compiled.iteration_type = "VectorFeatures"
                      -> <<ran.output_features[1][1].num_features>>
                 [] compiled.iteration_type = "VectorCoordinates"
                      -> <<ran.output_features[1][1].num_coords>>

\* A kernel enqueued for two output rasters of different shapes, and one
\* enqueued for two output builders of different sizes.
W13_OutputsOfDifferentSizes ==
    /\ lastOp = "run"
    /\ \E k \in 1..Len(log) : log[k].op = "enqueue"
    /\ \/ /\ compiled.iteration_type = "Raster"
          /\ Len(ran.output_rasters) = 2
          /\ ran.output_rasters[1][1].width # ran.output_rasters[2][1].width
       \/ /\ compiled.iteration_type = "VectorFeatures"
          /\ Len(ran.output_features) = 2
          /\ ran.output_features[1][1].num_features
                 # ran.output_features[2][1].num_features

\* C14: a run with every slot bound whose work size is zero returns
\* EmptyWorkSize and enqueues nothing (on a device that fails at no step
\* before the enqueue, and accepts or rejects the empty range there).
X14_ZeroWorkSizeReported ==
    LET bound(slots) == \A i \in 1..Len(slots) : IsSome(slots[i])
        zero == IF compiled.iteration_type = "Raster"
                THEN ran.output_rasters[1][1].width = 0
                         \/ ran.output_rasters[1][1].height = 0
                ELSE IF compiled.iteration_type = "VectorFeatures"
                THEN ran.output_features[1][1].num_features = 0
                ELSE ran.output_features[1][1].num_coords = 0
    IN  (/\ lastOp = "run"
         /\ lastArgs.fail \in {"none", "enqueue"}
         /\ bound(ran.input_rasters) /\ bound(ran.output_rasters)
         /\ bound(ran.input_features) /\ bound(ran.output_features)
         /\ zero)
            => /\ result = "EmptyWorkSize"
               /\ \A k \in 1..Len(log) : log[k].op # "enqueue"

\* C15: once compiled, the program's kernel name, iteration type and four
\* descriptor lists are changed by no runnable(), set_* or run call, whether
\* the call succeeds or fails: they stay what compile made of the
\* declaration.
C15_CompiledProgramIsFrame ==
    [][(phase \in {"compiled", "bound", "rejected"})
          => (compiled' = compiled
                /\ compiled' = CompiledCLProgramNew("kernel", program'))]_vars

\* A failed run and a successful run of a program with descriptors.
W15_RunLeftProgram ==
    /\ lastOp = "run"
    /\ result \in {"Ok", "Backend", "UnspecifiedRaster"}
    /\ Len(compiled.input_raster_types) >= 1
    /\ Len(compiled.output_raster_types) >= 1

\* C16: the runnable returned by runnable() has exactly one slot per
\* declared input raster, output raster, input feature list and output
\* feature list, every slot unbound, both device buffer lists empty and the
\* descriptor lists of the compiled program.
C16_RunnableIsFresh ==
    lastOp = "runnable" =>
        LET unbound(slots, types) ==
                /\ Len(slots) = Len(types)
                /\ \A i \in 1..Len(slots) : slots[i] = None
        IN  /\ unbound(runnable.input_rasters, compiled.input_raster_types)
            /\ unbound(runnable.output_rasters, compiled.output_raster_types)
            /\ unbound(runnable.input_features, compiled.input_feature_types)
            /\ unbound(runnable.output_features,
                       compiled.output_feature_types)
            /\ runnable.input_raster_types = compiled.input_raster_types
            /\ runnable.output_raster_types = compiled.output_raster_types
            /\ runnable.input_feature_types = compiled.input_feature_types
            /\ runnable.output_feature_types = compiled.output_feature_types
            /\ runnable.raster_output_buffers = <<>>
            /\ runnable.feature_output_buffers = <<>>

\* A runnable minted for a program whose input and output lists differ in
\* length.
W16_RunnableOfUnequalLists ==
    /\ lastOp = "runnable"
    /\ Len(runnable.input_rasters) = 2
    /\ Len(runnable.output_rasters) = 1

\* C17: for a program declaring only Data and MultiPoint feature lists, the
\* placeholders of the kernel are, in this order: IN<i>, IN_INFO<i> per input
\* raster; OUT<i>, OUT_INFO<i> per output raster; IN_POINT_COORDS<i>,
\* IN_POINT_OFFSETS<i> per MultiPoint input feature list; OUT_POINT_COORDS<i>,
\* OUT_POINT_OFFSETS<i> per MultiPoint output feature list; nothing for a
\* Data list; <i> is the position in the argument's own declared list.
C17_PlaceholderOrder ==
    LET kinds(types) == {types[i].vector_type : i \in 1..Len(types)}
        points(types) ==
            {i \in 1..Len(types) : types[i].vector_type = "MultiPoint"}
        before(set, i) == Cardinality({j \in set : j < i})
        ph == kernel.placeholders
        nir == Len(compiled.input_raster_types)
        nor == Len(compiled.output_raster_types)
        ins == points(compiled.input_feature_types)
        outs == points(compiled.output_feature_types)
        b1 == 2 * nir
        b2 == b1 + 2 * nor
        b3 == b2 + 2 * Cardinality(ins)
    IN  (/\ lastOp = "run"
         /\ lastArgs.fail # "queue"
         /\ kinds(compiled.input_feature_types)
                \cup kinds(compiled.output_feature_types)
                    \subseteq {"Data", "MultiPoint"})
            => /\ Len(ph) = b3 + 2 * Cardinality(outs)
               /\ \A i \in 1..nir :
                     /\ ph[2 * i - 1] = ArgName("IN", i - 1)
                     /\ ph[2 * i] = ArgName("IN_INFO", i - 1)
               /\ \A i \in 1..nor :
                     /\ ph[b1 + 2 * i - 1] = ArgName("OUT", i - 1)
                     /\ ph[b1 + 2 * i] = ArgName("OUT_INFO", i - 1)
               /\ \A i \in ins :
                     /\ ph[b2 + 2 * before(ins, i) + 1]
                            = ArgName("IN_POINT_COORDS", i - 1)
                     /\ ph[b2 + 2 * before(ins, i) + 2]
                            = ArgName("IN_POINT_OFFSETS", i - 1)
               /\ \A i \in outs :
                     /\ ph[b3 + 2 * before(outs, i) + 1]
                            = ArgName("OUT_POINT_COORDS", i - 1)
                     /\ ph[b3 + 2 * before(outs, i) + 2]
                            = ArgName("OUT_POINT_OFFSETS", i - 1)

\* A kernel whose MultiPoint input list follows a Data list: its arguments
\* carry index 1 and no argument carries the index of the Data list.
W17_PointsAfterData ==
    /\ lastOp = "run"
    /\ \E k \in 1..Len(kernel.placeholders) :
          kernel.placeholders[k] = ArgName("IN_POINT_COORDS", 1)
    /\ \A k \in 1..Len(kernel.placeholders) :
          kernel.placeholders[k] # ArgName("IN_POINT_COORDS", 0)

\* C18: the prelude a compile generates is empty when the program declares
\* no raster; otherwise it holds the RasterInfo struct and the R macro once,
\* ahead of all typedefs, and its typedef lines are, in order, IN_TYPE<i> for
\* each input raster and then OUT_TYPE<i> for each output raster, each with
\* the OpenCL name of the declared element type.
C18_PreludeTypedefs ==
    (lastOp = "compile" /\ result # "InvalidInputsForIterationType") =>
        LET cl == [U8 |-> "uchar", U16 |-> "ushort", U32 |-> "uint",
                   U64 |-> "ulong", I8 |-> "char", I16 |-> "short",
                   I32 |-> "int", I64 |-> "long", F32 |-> "float",
                   F64 |-> "double"]
            ins == program.input_rasters
            outs == program.output_rasters
            IsTypedef(line) == line.directive = "typedef"
            named(name) ==
                {k \in 1..Len(typedefs) : typedefs[k].name = name}
        IN  IF Len(ins) + Len(outs) = 0
            THEN typedefs = <<>>
            ELSE /\ named("RasterInfo") = {1}
                 /\ typedefs[1].directive = "typedef struct"
                 /\ named("R") = {2}
                 /\ SelectSeq(typedefs, IsTypedef)
                       = [k \in 1..(Len(ins) + Len(outs)) |->
                            IF k <= Len(ins)
                            THEN Line("typedef", "IN_TYPE", k - 1,
                                      cl[ins[k].data_type])
                            ELSE Line("typedef", "OUT_TYPE", k - Len(ins) - 1,
                                      cl[outs[k - Len(ins)].data_type])]

\* A prelude with the typedefs of a signed 8-bit input and an unsigned
\* 64-bit output.
W18_SignedInputUnsignedOutput ==
    /\ lastOp = "compile"
    /\ result = "Ok"
    /\ \E k \in 1..Len(typedefs) :
          typedefs[k] = Line("typedef", "IN_TYPE", 0, "char")
    /\ \E k \in 1..Len(typedefs) :
          typedefs[k] = Line("typedef", "OUT_TYPE", 0, "ulong")

\* C19: the prelude defines exactly one ISNODATA<i> per input raster i and
\* none for an output raster.  For F32 and F64 the macro is true when
\* has_no_data is set and the value is NaN or equals no_data; for the eight
\* integer types it is true when has_no_data is set and the value equals
\* no_data; with has_no_data unset it is false for every value.
C19_IsNoDataPerInputRaster ==
    (lastOp = "compile" /\ result # "InvalidInputsForIterationType") =>
        LET ins == program.input_rasters
            macros == {k \in 1..Len(typedefs) : typedefs[k].name = "ISNODATA"}
            macro(i) == {k \in macros : typedefs[k].idx = i - 1}
            floating(t) == t \in {"F32", "F64"}
            numbers == {Number(0), Number(1337)}
            values(t) == IF floating(t) THEN numbers \cup {NaN} ELSE numbers
            infos == [has_no_data : {0, 1}, no_data : numbers \cup {NaN}]
        IN  /\ Cardinality(macros) = Len(ins)
            /\ \A i \in 1..Len(ins) :
                  /\ Cardinality(macro(i)) = 1
                  /\ \A k \in macro(i) :
                        /\ typedefs[k].directive = "#define"
                        /\ \A v \in values(ins[i].data_type), j \in infos :
                              ISNODATA(typedefs[k].body, v, j)
                                <=> /\ j.has_no_data = 1
                                    /\ \/ floating(ins[i].data_type) /\ v.nan
                                       \/ /\ ~v.nan
                                          /\ ~j.no_data.nan
                                          /\ v.value = j.no_data.value

\* A prelude with the macros of a double-precision and an integer input
\* raster, in a program that also declares an output raster.
W19_DoubleAndIntegerInput ==
    /\ lastOp = "compile"
    /\ result = "Ok"
    /\ Len(program.output_rasters) >= 1
    /\ \E i, j \in 1..Len(program.input_rasters) :
          /\ program.input_rasters[i].data_type = "F64"
          /\ program.input_rasters[j].data_type = "U16"

\* C20: from_raster(r) yields size[2] = 1, has_no_data = 1 exactly when r
\* has a no-data value, no_data = that value as a double or 0 without one,
\* and origin, scale, min, max and crs_code all zero; when the width and the
\* height of r fit in 32 bits, size[0] and size[1] equal them.
C20_RasterInfoFromRaster ==
    lastOp = "from_raster" =>
        LET r == raster_info[1]
            i == raster_info[2]
            zero == [nan |-> FALSE, value |-> 0]
            one == [hi32 |-> 0, lo32 |-> 1]
        IN  /\ Len(i.size) = 3
            /\ i.size[3] = one
            /\ (r.width.hi32 = 0 /\ r.height.hi32 = 0)
                  => (i.size[1] = r.width /\ i.size[2] = r.height)
            /\ i.has_no_data = 1 <=> Len(r.no_data_value) = 1
            /\ i.has_no_data = 0 <=> Len(r.no_data_value) = 0
            /\ Len(r.no_data_value) = 1 => i.no_data = r.no_data_value[1]
            /\ Len(r.no_data_value) = 0 => i.no_data = zero
            /\ i.origin = <<zero, zero, zero>>
            /\ i.scale = <<zero, zero, zero>>
            /\ i.min = zero
            /\ i.max = zero
            /\ i.crs_code = 0

\* The RasterInfo of a 3 x 2 raster with the no-data value 1337.
W20_SmallRasterWithNoData ==
    /\ lastOp = "from_raster"
    /\ raster_info[1].width = [hi32 |-> 0, lo32 |-> 3]
    /\ raster_info[1].height = [hi32 |-> 0, lo32 |-> 2]
    /\ raster_info[1].no_data_value = <<[nan |-> FALSE, value |-> 1337]>>
    /\ raster_info[2].has_no_data = 1

\* C21: a grid index sent through grid_2d_to_coordinate_2d and back through
\* coordinate_2d_to_grid_2d of the same transform comes back unchanged.
X21_AffineRoundTrip ==
    (geo.op = "coordinate_2d_to_grid_2d" /\ IsSome(geo.of))
        => geo.value = geo.of[1]

\* The quotient (coordinate - upper left) / pixel size, as the code forms it.
Quotient(coordinate, upper_left, pixel_size) == f64_div(f64_sub(coordinate, upper_left), pixel_size)

\* n <= v < n + 1 for an integer n and a float v.
FloorIs(v, n) ==
    IF v.exponent >= 0
    THEN n = v.significand * 2 ^ v.exponent
    ELSE /\ n * 2 ^ (0 - v.exponent) <= v.significand
         /\ v.significand < (n + 1) * 2 ^ (0 - v.exponent)

\* v truncated toward zero is n.
TruncatedIs(v, n) ==
    IF v.significand >= 0
    THEN FloorIs(v, n)
    ELSE FloorIs([v EXCEPT !.significand = 0 - v.significand], 0 - n)

IndexIs(v, n) == IF v.significand < 0 THEN n = 0 ELSE FloorIs(v, n)

C22_SixElementBridge ==
    /\ (geo.op = "from" /\ IsSome(geo.of)) => geo.value = geo.of[1]
    /\ (geo.op = "into" /\ IsSome(geo.of)) =>
           geo.value = [geo.of[1] EXCEPT ![3] = Float(0, 0), ![5] = Float(0, 0)]

\* An array with non-zero rotation terms went through from() and into().
W22_RotationDropped ==
    /\ geo.op = "into"
    /\ IsSome(geo.of)
    /\ geo.of[1][3] # Float(0, 0)
    /\ geo.of[1][5] # Float(0, 0)
    /\ geo.of[1][1] # geo.of[1][4]

\* C24: whatever its outcome, a run writes host memory only behind output
\* slots of the runnable it was given: no input raster and no input feature
\* collection is written, also when one raster is bound to several input
\* slots, and each written output slot exists.
C24_InputsNotWritten ==
    lastOp = "run" =>
        \A k \in 1..Len(kernel.written) :
            LET slot == kernel.written[k]
            IN  \/ /\ slot.list = "output_rasters"
                   /\ slot.idx < Len(ran.output_rasters)
                \/ /\ slot.list = "output_features"
                   /\ slot.idx < Len(ran.output_features)

\* A run read an output raster back while one raster was bound to two
\* input slots.
W24_SharedInputRead ==
    /\ lastOp = "run"
    /\ result = "Ok"
    /\ Len(ran.input_rasters) = 2
    /\ ran.input_rasters[1] = ran.input_rasters[2]
    /\ kernel.written = <<HostSlot("output_rasters", 0)>>

\* C26: in every run that reaches read_output_buffers there are as many
\* raster output buffers as declared output rasters, the k-th buffer has
\* the element type of the k-th bound output raster, and the run does not
\* end in the unreachable!() arm (or any other panic).
C26_BuffersPairedWithRasters ==
    (lastOp = "run" /\ IsSome(kernel.drained)) =>
        LET buffers == kernel.drained[1]
        IN  /\ Len(buffers) = Len(compiled.output_raster_types)
            /\ Len(buffers) = Len(ran.output_rasters)
            /\ \A k \in 1..Len(buffers) :
                   /\ IsSome(ran.output_rasters[k])
                   /\ buffers[k] = raster_data_type(ran.output_rasters[k][1])
            /\ result # "Panic"

\* A run read back two output rasters of different element types.
W26_TwoTypesReadBack ==
    /\ lastOp = "run"
    /\ result = "Ok"
    /\ IsSome(kernel.drained)
    /\ Len(kernel.drained[1]) = 2
    /\ kernel.drained[1][1] # kernel.drained[1][2]

\* C28: in every run each name passed to set_arg is a declared placeholder
\* of that run's kernel, and an enqueued kernel has every placeholder bound,
\* whatever geometry kinds were declared and whatever builders were bound.
X28_BoundNamesDeclared ==
    lastOp = "run" =>
        /\ ~IsSome(kernel.rejected)
        /\ \A k \in 1..Len(log) :
               log[k].op = "set_arg" =>
                   \E j \in 1..Len(kernel.placeholders) :
                       kernel.placeholders[j] = ArgName(log[k].kind, log[k].idx)
        /\ (\E k \in 1..Len(log) : log[k].op = "enqueue") =>
               \A j \in 1..Len(kernel.placeholders) :
                   \E k \in 1..Len(log) :
                       /\ log[k].op = "set_arg"
                       /\ ArgName(log[k].kind, log[k].idx)
                              = kernel.placeholders[j]

\* What read_output_buffers does for the builder of slot idx, in order.
BuilderSteps(idx) == <<Ev("read", "OUT_POINT_OFFSETS", idx), Ev("read", "OUT_POINT_COORDS", idx), Ev("set_points", "", idx), Ev("set_default_time_intervals", "", idx), Ev("finish", "", idx)>>

RECURSIVE AllBuilderSteps(_)
\* The steps for the builders of slots 0 .. n - 1.
AllBuilderSteps(n) == IF n = 0 THEN <<>> ELSE AllBuilderSteps(n - 1) \o BuilderSteps(n - 1)

\* The length a point buffer of the given kind must have for a builder.
PointBufferLen(builder, kind) == IF kind = "OUT_POINT_COORDS" THEN builder.num_coords ELSE builder.num_features + 1

\* C27: in a run that launches the kernel, every MultiPoint output builder
\* got, before the launch, a coordinate buffer of num_coords() elements and
\* an offsets buffer of num_features() + 1 elements; after the launch the
\* builders are served in slot order, each by two reads of exactly those
\* lengths (the offsets first) followed by set_points,
\* set_default_time_intervals and finish, once each; the first failing step
\* ends the run with its error (the backend's for a read, the builder's for
\* a builder call) and nothing is done for it or any later builder.
C27_BuildersFilledInOrder ==
    (lastOp = "run" /\ \E k \in 1..Len(log) : log[k].op = "enqueue") =>
        LET launch == CHOOSE k \in 1..Len(log) : log[k].op = "enqueue"
            n == Len(ran.output_features)
            full == AllBuilderSteps(n)
            ForBuilder(e) == e.kind # "OUT"
            tail == SelectSeq(SubSeq(log, launch + 1, Len(log)), ForBuilder)
        IN  /\ \A i \in 1..n : \A kind \in {"OUT_POINT_COORDS", "OUT_POINT_OFFSETS"} :
                   /\ \E j \in 1..(launch - 1) : log[j] = Ev("alloc", kind, i - 1)
                   /\ \E j \in 1..Len(kernel.sized) :
                          kernel.sized[j] = [op |-> "alloc", kind |-> kind, idx |-> i - 1, len |-> PointBufferLen(ran.output_features[i][1], kind)]
            /\ \A j \in 1..Len(kernel.sized) :
                   kernel.sized[j].len = PointBufferLen(ran.output_features[kernel.sized[j].idx + 1][1], kernel.sized[j].kind)
            /\ \A k \in 1..Len(tail) :
                   tail[k].op = "read" =>
                       \E j \in 1..Len(kernel.sized) :
                           /\ kernel.sized[j].op = "read"
                           /\ kernel.sized[j].kind = tail[k].kind
                           /\ kernel.sized[j].idx = tail[k].idx
            /\ Len(tail) <= Len(full)
            /\ tail = SubSeq(full, 1, Len(tail))
            /\ (result = "Ok") => (tail = full)
            /\ result \in {"Ok", "Backend", "Builder"}
            /\ (result = "Builder") => full[Len(tail) + 1] = Ev(lastArgs.fail, "", lastArgs.idx)
            /\ (lastArgs.fail \in BuilderFailure /\ lastArgs.idx < n) => result = "Builder"

\* The second of two builders of different sizes failed in
\* set_default_time_intervals after the first was finished.
W27_SecondBuilderFailed ==
    /\ lastOp = "run"
    /\ result = "Builder"
    /\ lastArgs.fail = "set_default_time_intervals"
    /\ lastArgs.idx = 1
    /\ Len(ran.output_features) = 2
    /\ ran.output_features[1][1].num_features # ran.output_features[2][1].num_features
    /\ \E k \in 1..Len(log) : log[k] = Ev("finish", "", 0)
    /\ \E k \in 1..Len(log) : log[k] = Ev("set_points", "", 1)

\* The list of the runnable that a set_* method fills.
ListOf(op) == CASE op = "set_input_raster" -> "input_rasters" [] op = "set_output_raster" -> "output_rasters" [] op = "set_input_features" -> "input_features" [] op = "set_output_features" -> "output_features"

\* C29: a successful set_input_raster, set_output_raster,
\* set_input_features or set_output_features at index i puts the value it
\* was given into slot i of its own list, whatever was bound there before,
\* and changes no other slot, no descriptor list and no buffer list of
\* the runnable (nor the compiled program); run is then given that
\* runnable, so it uses the value bound last.
C29_SetChangesOneSlot ==
    [][/\ (phase = "bound" /\ result' = "Ok" /\ lastOp' \in {"set_input_raster", "set_output_raster", "set_input_features", "set_output_features"}) =>
           (/\ lastArgs'.idx < Len(runnable[ListOf(lastOp')])
            /\ runnable' = [runnable EXCEPT ![ListOf(lastOp')][lastArgs'.idx + 1] = lastArgs'.value]
            /\ compiled' = compiled)
       /\ (phase = "bound" /\ lastOp' = "run") => (ran' = runnable)]_vars

\* A builder was bound to output slot 0 while an input slot was bound.
W29_BoundBesideOthers ==
    /\ lastOp = "set_output_features"
    /\ result = "Ok"
    /\ lastArgs.idx = 0
    /\ lastArgs.value[1].num_features = 0
    /\ runnable.output_features[1] = lastArgs.value
    /\ Len(runnable.input_features) = 1
    /\ IsSome(runnable.input_features[1])

\* The outcome that the inputs of the last create give to one of its calls.
OutcomeOf(call) == CASE call.step = "raster_source" -> operator.raster_sources[call.idx + 1] [] call.step = "vector_source" -> operator.vector_sources[call.idx + 1] [] call.step = "state_fn" -> operator.state_fn [] call.step = "result_descriptor_fn" -> operator.result_descriptor_fn

\* C30: create calls initialize on the raster sources in list order, then
\* on the vector sources in list order, then state_fn, then
\* result_descriptor_fn, and stops at the first failure: every call but
\* the last succeeded, a failing last call gives its error as the value of
\* create, and create returns Ok only after all calls were made.
C30_CreateStopsAtFirstFailure ==
    operator.op = "create" =>
        LET everything == [k \in 1..Len(operator.raster_sources) |-> Step("raster_source", k - 1)] \o [k \in 1..Len(operator.vector_sources) |-> Step("vector_source", k - 1)] \o <<Step("state_fn", 0), Step("result_descriptor_fn", 0)>>
            calls == operator.calls
        IN  /\ Len(calls) >= 1
            /\ Len(calls) <= Len(everything)
            /\ calls = SubSeq(everything, 1, Len(calls))
            /\ \A k \in 1..(Len(calls) - 1) : OutcomeOf(calls[k]) = "Ok"
            /\ IF OutcomeOf(calls[Len(calls)]) = "Err"
               THEN operator.value = ErrOf(calls[Len(calls)])
               ELSE calls = everything /\ operator.value = OkSelf

\* The second vector source failed after two raster sources and the first
\* vector source were initialized.
W30_SecondVectorSourceFailed ==
    /\ operator.op = "create"
    /\ Len(operator.raster_sources) = 2
    /\ operator.vector_sources = <<"Ok", "Err">>
    /\ operator.state_fn = "Err"
    /\ operator.value = ErrOf(Step("vector_source", 1))
    /\ Len(operator.calls) = 4

\* C25 as written: the default device is queried at most once and there is
\* one context in the process, shared by every compile and every run.
X25_OneDeviceOneContext ==
    /\ once.device_first <= 1
    /\ once.contexts <= 1
    /\ \A t \in DOMAIN threads : \A u \in DOMAIN threads :
           (threads[t].ctx # 0 /\ threads[u].ctx # 0)
               => threads[t].ctx = threads[u].ctx

\* C25: across every interleaving of compile calls the default device is
\* queried at most once, by the first thread that needs it, and every
\* compile that goes on and every run uses that device; the context is not
\* shared: each compile that comes so far builds a context of its own on
\* that device, and a run makes its queue on the context of its compile.
C25_OneDeviceContextPerCompile ==
    /\ once.device_first <= 1
    /\ (once.device_first = 1) = (once.DEVICE \in {"ready", "poisoned"})
    /\ \A t \in DOMAIN threads :
           /\ threads[t].pc \in {"context", "program", "compiled", "ran"}
                  => once.DEVICE = "ready"
           /\ threads[t].pc \in {"program", "compiled", "ran"}
                  => threads[t].ctx \in 1..once.contexts
           /\ threads[t].pc = "ran"
                  => threads[t].queue = Some([ctx |-> threads[t].ctx,
                                              device |-> "ready"])
    /\ \A t \in DOMAIN threads : \A u \in DOMAIN threads :
           (t # u /\ threads[t].ctx # 0) => threads[t].ctx # threads[u].ctx
    /\ once.contexts = Cardinality({t \in DOMAIN threads : threads[t].ctx # 0})

\* Two threads compiled and ran, each on its own context, after one query
\* of the device.
W25_TwoCompilesTwoContexts ==
    /\ once.device_first = 1
    /\ once.contexts = 2
    /\ \A t \in 1..2 : t \in DOMAIN threads /\ threads[t].pc = "ran"
====
